---- MODULE Spec2Model ----
(***************************************************************************)
(* Model of simple_var_manager: the activation engine of src/gui_qt.py     *)
(* (disable_unrelated_vars_by_rename, _apply_keep_set_live,                *)
(* restore_offloaded_vars and the session handlers around them) and the    *)
(* dependency resolver (compute_keep_set_for_scene_vars,                   *)
(* core/resolver.py), and the scan with its cache (AnalyzeWorker,          *)
(* ChangeCheckWorker, core/scanner.py).                                    *)
(*                                                                         *)
(* The package directory is flat.  A package is identified by its file     *)
(* name; its file is at the canonical name (p.var) and/or at the canonical *)
(* name + DISABLED_SUFFIX.  A file is represented by the identity of its   *)
(* content: NoFile, OwnContent = the package's file, ForeignContent = a    *)
(* different file that someone else put under that name.                   *)
(***************************************************************************)
EXTENDS Integers, Sequences, FiniteSets, TLC

\* ---------------------------------------------------------------- bounds
NumPkgs == 2
MaxManifest == 2
MaxLocked == 1
MaxExternal == 1

Pkgs == 1..NumPkgs

NoFile == "none"
OwnContent == "own"
ForeignContent == "foreign"

VARIABLES
  \* the AddonPackages directory and the manifest file
  en,                 \* en[p]: content at the canonical name p.var
  dis,                \* dis[p]: content at p.var.disabled
  manifest,           \* [exists, renamed]: _vam_temp_manifest.json
  \* environment
  locked,             \* packages whose file cannot be renamed right now
  running,            \* VaM.exe is running
  \* MainWindow fields
  lean_active, vam_seen_running, poll_timer,
  \* control: the statement being executed and where the callee returns to
  pc, ret,
  outer,              \* [pc, ret] of the function whose dialog is open while
                      \* a timer handler runs in the dialog's event loop
  \* locals of the engine functions and of the handlers
  keep_set, todo, renamed, failed, tool_items, remaining,
  disabled_count, restored_count, restored, ap_running,
  \* observation (history) variables
  result,             \* last value returned by _apply_keep_set_live
  renames,            \* renames performed by the call in progress / last call
  returned,           \* engine function that returned in the last step
  tool_disabled,      \* renamed to Disabled by the tool, not yet renamed back
  snap_en, snap_dis,  \* directory at the start of the round trip
  calls,              \* number of engine calls made (round-trip / twice specs)
  ext_count,          \* external changes made to the directory so far
  owed,               \* VaM stopped in an Active session, restore not yet run
  visited,            \* packages whose rename the pass in progress considered
  pend_dis,           \* ... whose rename to the disabled name raised
  pend_res,           \* ... whose file is still disabled: rename raised or skipped
  snap_manifest,      \* manifest at the start of the first pass
  prev_pend_dis, prev_pend_res,   \* pend_dis, pend_res of the pass before
  \* dependency resolver: compute_keep_set_for_scene_vars
  all_vars,           \* all_var_names_on_disk(): the universe
  var_deps,           \* _deps_for_var_name: dependency tokens of each package
  scene_vars,         \* the seed packages
  keep, queue,        \* locals of compute_keep_set_for_scene_vars
  seeds_todo,         \* seeds the first loop has not visited yet
  dep, matched,       \* token popped last, its matches not yet visited
  rpc,                \* position in compute_keep_set_for_scene_vars
  run, keep1,         \* number of the resolution, result of the first one
  enq_count,          \* times each package's tokens were put on the queue
  off_top,            \* a token was taken from elsewhere than the queue's end
  \* scan and cache: AnalyzeWorker, ChangeCheckWorker, scene_cache.json
  present,            \* names of the package files in AddonPackages
  sig,                \* _var_signature of each file: size and mtime
  kind,               \* condition of each archive and of its meta.json
  scene,              \* packages whose archive holds a scene document
  loose,              \* signature of the loose scene in Saves/scene, 0: none
  addon,              \* path of the AddonPackages directory in use
  cache,              \* the cache file
  scene_entries,      \* MainWindow.scene_entries: var_name of the entries
  var_deps_cache,     \* MainWindow._var_deps_cache
  spc,                \* worker that is running: "check", "scan" or "idle"
  needs,              \* needs_rescan emitted by the last change check
  opened,             \* archives the last scan opened
  changes,            \* changes made to the folder and the cache by others
  \* updater: main of updater.py
  argc,               \* len(sys.argv)
  current_exe,        \* content at the path of the running executable
  backup,             \* content at that path with ".bak" appended
  new_exe,            \* content at the path of the downloaded executable
  upc,                \* position in main
  backup_tries,       \* failed passes of the loop that renames to the backup
  copy_tries,         \* failed passes of the loop that copies
  exit_code,          \* value main returned
  snap_current_exe    \* current_exe when main began

diskVars == <<en, dis, manifest>>
envVars == <<locked, running>>
appVars == <<lean_active, vam_seen_running, poll_timer>>
locVars == <<keep_set, todo, renamed, failed, tool_items, remaining,
             disabled_count, restored_count, restored, ap_running>>
obsVars == <<result, renames, tool_disabled, snap_en, snap_dis, calls,
             ext_count, owed>>
auditVars == <<visited, pend_dis, pend_res>>
passVars == <<snap_manifest, prev_pend_dis, prev_pend_res>>

vars == <<en, dis, manifest, locked, running,
          lean_active, vam_seen_running, poll_timer, pc, ret, outer,
          keep_set, todo, renamed, failed, tool_items, remaining,
          disabled_count, restored_count, restored, ap_running,
          result, renames, returned, tool_disabled, snap_en, snap_dis, calls,
          ext_count, owed, visited, pend_dis, pend_res,
          snap_manifest, prev_pend_dis, prev_pend_res,
          all_vars, var_deps, scene_vars, keep, queue, seeds_todo, dep,
          matched, rpc, run, keep1, enq_count, off_top,
          present, sig, kind, scene, loose, addon, cache, scene_entries,
          var_deps_cache, spc, needs, opened, changes,
          argc, current_exe, backup, new_exe, upc, backup_tries, copy_tries,
          exit_code, snap_current_exe>>

engVars == <<en, dis, manifest, locked, running,
             lean_active, vam_seen_running, poll_timer, pc, ret, outer,
             keep_set, todo, renamed, failed, tool_items, remaining,
             disabled_count, restored_count, restored, ap_running,
             result, renames, returned, tool_disabled, snap_en, snap_dis,
             calls, ext_count, owed, visited, pend_dis, pend_res,
             snap_manifest, prev_pend_dis, prev_pend_res>>

scanVars == <<present, sig, kind, scene, loose, addon, cache, scene_entries,
              var_deps_cache, spc, needs, opened, changes>>

updVars == <<argc, current_exe, backup, new_exe, upc, backup_tries,
             copy_tries, exit_code, snap_current_exe>>

resVars == <<all_vars, var_deps, scene_vars, keep, queue, seeds_todo, dep,
             matched, rpc, run, keep1, enq_count, off_top>>

\* ------------------------------------------------------------ disk helpers
\* no dialog of an engine function has a handler running inside it
NoOuter == [pc |-> "idle", ret |-> "idle"]

\* the engine functions' positions at which a QMessageBox is open
Dialogs == {"dis_dialog", "rec_dialog"}

NoManifest == [exists |-> FALSE, renamed |-> <<>>]

\* the manifest file while `mp.write_text` is under way: opened for writing,
\* so truncated, and not yet holding the whole document; json.loads of it
\* raises, so _read_manifest gives {} (no entry)
Torn == [exists |-> TRUE, renamed |-> <<>>, torn |-> TRUE]

\* fast_list_vars_all_states: (orig name, form of the actual path)
fast_list_vars_all_states ==
  {<<p, "var">> : p \in {q \in Pkgs : en[q] # NoFile}}
    \cup {<<p, "disabled">> : p \in {q \in Pkgs : dis[q] # NoFile}}

\* the entries of a listing are visited in directory order, which is the
\* order of the file names
RECURSIVE InNameOrder(_)
InNameOrder(S) ==
  IF S = {} THEN <<>>
  ELSE LET m == CHOOSE x \in S : \A y \in S : x <= y
       IN <<m>> \o InNameOrder(S \ {m})

\* entries that pass `actual_path.name.lower().endswith(".var")`
EnabledListing ==
  InNameOrder({e[1] : e \in {x \in fast_list_vars_all_states : x[2] = "var"}})

\* Path.rename(src, dst) with src and dst of package p; raises when the
\* file is locked, the source is gone or (Windows) the destination exists
RenameRaises(p, src, dst) == p \in locked \/ src = NoFile \/ dst # NoFile

Range(s) == {s[i] : i \in DOMAIN s}

\* ------------------------------------------------ engine: cold disable
\* disable_unrelated_vars_by_rename(ks), entered from `from`, returning to r:
\* the listing is read once, before the loop
CallDisable(ks, r) ==
  /\ keep_set' = ks
  /\ todo' = EnabledListing
  /\ renamed' = <<>>
  /\ failed' = {}
  /\ renames' = 0
  /\ visited' = {}
  /\ pend_dis' = {}
  /\ pend_res' = {}
  /\ pc' = "dis_loop"
  /\ ret' = r

\* DisableStep without the `if dst.exists(): continue` guard, the rename
\* replacing the file at the destination
DisableStep_Overwrites ==
  /\ pc = "dis_loop"
  /\ todo # <<>>
  /\ LET p == Head(todo) IN
       /\ todo' = Tail(todo)
       /\ IF p \in keep_set
            THEN UNCHANGED <<en, dis, renamed, failed, renames, tool_disabled,
                             visited, pend_dis>>
            ELSE /\ visited' = visited \cup {p}
                 /\ IF p \in locked \/ en[p] = NoFile
                      THEN /\ failed' = failed \cup {p}
                           /\ pend_dis' = pend_dis \cup {p}
                           /\ UNCHANGED <<en, dis, renamed, renames,
                                          tool_disabled>>
                      ELSE /\ dis' = [dis EXCEPT ![p] = en[p]]
                           /\ en' = [en EXCEPT ![p] = NoFile]
                           /\ renamed' = Append(renamed, p)
                           /\ renames' = renames + 1
                           /\ tool_disabled' = tool_disabled \cup {p}
                           /\ UNCHANGED <<failed, pend_dis>>
       /\ UNCHANGED pend_res
  /\ returned' = "none"
  /\ UNCHANGED resVars
  /\ UNCHANGED scanVars
  /\ UNCHANGED updVars
  /\ UNCHANGED passVars
  /\ UNCHANGED outer
  /\ UNCHANGED <<manifest, envVars, appVars, pc, ret, keep_set, tool_items,
                 remaining, disabled_count, restored_count, restored,
                 ap_running, result, snap_en, snap_dis, calls, ext_count, owed>>

\* DisableStep that copies the file to the disabled name instead of renaming
DisableStep_Copies ==
  /\ pc = "dis_loop"
  /\ todo # <<>>
  /\ LET p == Head(todo) IN
       /\ todo' = Tail(todo)
       /\ visited' = IF p \in keep_set THEN visited ELSE visited \cup {p}
       /\ IF p \in keep_set \/ dis[p] # NoFile
            THEN UNCHANGED <<en, dis, renamed, failed, renames, tool_disabled,
                             pend_dis>>
            ELSE IF RenameRaises(p, en[p], dis[p])
              THEN /\ failed' = failed \cup {p}
                   /\ pend_dis' = pend_dis \cup {p}
                   /\ UNCHANGED <<en, dis, renamed, renames, tool_disabled>>
              ELSE /\ dis' = [dis EXCEPT ![p] = en[p]]
                   /\ renamed' = Append(renamed, p)
                   /\ renames' = renames + 1
                   /\ tool_disabled' = tool_disabled \cup {p}
                   /\ UNCHANGED <<en, failed, pend_dis>>
       /\ UNCHANGED pend_res
  /\ returned' = "none"
  /\ UNCHANGED resVars
  /\ UNCHANGED scanVars
  /\ UNCHANGED updVars
  /\ UNCHANGED passVars
  /\ UNCHANGED outer
  /\ UNCHANGED <<manifest, envVars, appVars, pc, ret, keep_set, tool_items,
                 remaining, disabled_count, restored_count, restored,
                 ap_running, result, snap_en, snap_dis, calls, ext_count, owed>>

\* DisableStep whose `except` leaves the loop
DisableStep_AbortsOnFailure ==
  /\ pc = "dis_loop"
  /\ todo # <<>>
  /\ LET p == Head(todo) IN
       /\ visited' = IF p \in keep_set THEN visited ELSE visited \cup {p}
       /\ IF p \in keep_set \/ dis[p] # NoFile
            THEN /\ todo' = Tail(todo)
                 /\ UNCHANGED <<en, dis, renamed, failed, renames,
                                tool_disabled, pend_dis>>
            ELSE IF RenameRaises(p, en[p], dis[p])
              THEN /\ todo' = <<>>
                   /\ failed' = failed \cup {p}
                   /\ pend_dis' = pend_dis \cup {p}
                   /\ UNCHANGED <<en, dis, renamed, renames, tool_disabled>>
              ELSE /\ todo' = Tail(todo)
                   /\ dis' = [dis EXCEPT ![p] = en[p]]
                   /\ en' = [en EXCEPT ![p] = NoFile]
                   /\ renamed' = Append(renamed, p)
                   /\ renames' = renames + 1
                   /\ tool_disabled' = tool_disabled \cup {p}
                   /\ UNCHANGED <<failed, pend_dis>>
       /\ UNCHANGED pend_res
  /\ returned' = "none"
  /\ UNCHANGED resVars
  /\ UNCHANGED scanVars
  /\ UNCHANGED updVars
  /\ UNCHANGED passVars
  /\ UNCHANGED outer
  /\ UNCHANGED <<manifest, envVars, appVars, pc, ret, keep_set, tool_items,
                 remaining, disabled_count, restored_count, restored,
                 ap_running, result, snap_en, snap_dis, calls, ext_count, owed>>

\* one iteration of the loop of disable_unrelated_vars_by_rename
DisableStep ==
  /\ pc = "dis_loop"
  /\ todo # <<>>
  /\ LET p == Head(todo) IN
       /\ todo' = Tail(todo)
       /\ visited' = IF p \in keep_set THEN visited ELSE visited \cup {p}
       /\ IF p \in keep_set \/ dis[p] # NoFile
            THEN UNCHANGED <<en, dis, renamed, failed, renames, tool_disabled,
                             pend_dis>>
            ELSE IF RenameRaises(p, en[p], dis[p])
              THEN /\ failed' = failed \cup {p}
                   /\ pend_dis' = pend_dis \cup {p}
                   /\ UNCHANGED <<en, dis, renamed, renames, tool_disabled>>
              ELSE /\ dis' = [dis EXCEPT ![p] = en[p]]
                   /\ en' = [en EXCEPT ![p] = NoFile]
                   /\ renamed' = Append(renamed, p)
                   /\ renames' = renames + 1
                   /\ tool_disabled' = tool_disabled \cup {p}
                   /\ UNCHANGED <<failed, pend_dis>>
       /\ UNCHANGED pend_res
  /\ returned' = "none"
  /\ UNCHANGED resVars
  /\ UNCHANGED scanVars
  /\ UNCHANGED updVars
  /\ UNCHANGED passVars
  /\ UNCHANGED outer
  /\ UNCHANGED <<manifest, envVars, appVars, pc, ret, keep_set, tool_items,
                 remaining, disabled_count, restored_count, restored,
                 ap_running, result, snap_en, snap_dis, calls, ext_count, owed>>

\* after the loop: `mp.write_text` opens the manifest file, which truncates it
DisableTruncate ==
  /\ pc = "dis_loop"
  /\ todo = <<>>
  /\ manifest' = Torn
  /\ pc' = "dis_write"
  /\ returned' = "none"
  /\ UNCHANGED resVars
  /\ UNCHANGED scanVars
  /\ UNCHANGED updVars
  /\ UNCHANGED passVars
  /\ UNCHANGED outer
  /\ UNCHANGED auditVars
  /\ UNCHANGED <<en, dis, envVars, appVars, ret, locVars, result, renames,
                 tool_disabled, snap_en, snap_dis, calls, ext_count, owed>>

\* DisableWrite that adds this call's renames to the entries that were on disk
DisableWrite_KeepsOldEntries ==
  /\ pc = "dis_write"
  /\ manifest' = [exists |-> TRUE,
                  renamed |-> snap_manifest.renamed \o renamed]
  /\ pc' = IF failed = {} THEN ret ELSE "dis_dialog"
  /\ returned' = "disable"
  /\ UNCHANGED resVars
  /\ UNCHANGED scanVars
  /\ UNCHANGED updVars
  /\ UNCHANGED passVars
  /\ UNCHANGED outer
  /\ UNCHANGED auditVars
  /\ renamed' = <<>>
  /\ failed' = {}
  /\ UNCHANGED <<en, dis, envVars, appVars, ret, keep_set, todo, tool_items,
                 remaining, disabled_count, restored_count, restored,
                 ap_running, obsVars>>

\* the document is written; the function returns, after a warning dialog
\* (`QMessageBox.warning`) when a rename failed
DisableWrite ==
  /\ pc = "dis_write"
  /\ manifest' = [exists |-> TRUE, renamed |-> renamed]
  /\ pc' = IF failed = {} THEN ret ELSE "dis_dialog"
  /\ returned' = "disable"
  /\ UNCHANGED resVars
  /\ UNCHANGED scanVars
  /\ UNCHANGED updVars
  /\ UNCHANGED passVars
  /\ UNCHANGED outer
  /\ UNCHANGED auditVars
  /\ renamed' = <<>>
  /\ failed' = {}
  /\ UNCHANGED <<en, dis, envVars, appVars, ret, keep_set, todo, tool_items,
                 remaining, disabled_count, restored_count, restored,
                 ap_running, obsVars>>

\* CallReconcile taking as tool_items every file found at a disabled name,
\* listed in the manifest or not
CallReconcile_EveryDisabledFile(ks, r) ==
  /\ keep_set' = ks
  /\ tool_items' = InNameOrder({p \in Pkgs : dis[p] # NoFile})
  /\ remaining' = <<>>
  /\ disabled_count' = 0
  /\ restored_count' = 0
  /\ failed' = {}
  /\ renames' = 0
  /\ visited' = {}
  /\ pend_dis' = {}
  /\ pend_res' = {}
  /\ pc' = "rec_restore"
  /\ ret' = r

\* ------------------------------------------------ engine: live reconcile
\* _apply_keep_set_live(ks): reads the manifest into tool_items
CallReconcile(ks, r) ==
  /\ keep_set' = ks
  /\ tool_items' = IF manifest.exists THEN manifest.renamed ELSE <<>>
  /\ remaining' = <<>>
  /\ disabled_count' = 0
  /\ restored_count' = 0
  /\ failed' = {}
  /\ renames' = 0
  /\ visited' = {}
  /\ pend_dis' = {}
  /\ pend_res' = {}
  /\ pc' = "rec_restore"
  /\ ret' = r

\* 1) restore tool-disabled vars that are now in keep_set (one item)
ReconcileRestoreStep ==
  /\ pc = "rec_restore"
  /\ tool_items # <<>>
  /\ LET orig == Head(tool_items) IN
       /\ tool_items' = Tail(tool_items)
       /\ visited' = IF orig \in keep_set THEN visited \cup {orig} ELSE visited
       /\ IF orig \notin keep_set
            THEN /\ remaining' = Append(remaining, orig)
                 /\ UNCHANGED <<en, dis, restored_count, renames, tool_disabled,
                                pend_res>>
            ELSE IF dis[orig] # NoFile /\ en[orig] = NoFile
                      /\ ~RenameRaises(orig, dis[orig], en[orig])
              THEN /\ en' = [en EXCEPT ![orig] = dis[orig]]
                   /\ dis' = [dis EXCEPT ![orig] = NoFile]
                   /\ restored_count' = restored_count + 1
                   /\ renames' = renames + 1
                   /\ tool_disabled' = tool_disabled \ {orig}
                   /\ UNCHANGED <<remaining, pend_res>>
              ELSE /\ remaining' = Append(remaining, orig)
                   /\ pend_res' = IF dis[orig] # NoFile
                                    THEN pend_res \cup {orig} ELSE pend_res
                   /\ UNCHANGED <<en, dis, restored_count, renames, tool_disabled>>
       /\ UNCHANGED pend_dis
  /\ returned' = "none"
  /\ UNCHANGED resVars
  /\ UNCHANGED scanVars
  /\ UNCHANGED updVars
  /\ UNCHANGED passVars
  /\ UNCHANGED outer
  /\ UNCHANGED <<manifest, envVars, appVars, pc, ret, keep_set, todo, renamed,
                 failed, disabled_count, restored, ap_running, result,
                 snap_en, snap_dis, calls, ext_count, owed>>

\* between the loops: the directory is listed for the disable loop
ReconcileList ==
  /\ pc = "rec_restore"
  /\ tool_items = <<>>
  /\ todo' = EnabledListing
  /\ pc' = "rec_disable"
  /\ returned' = "none"
  /\ UNCHANGED resVars
  /\ UNCHANGED scanVars
  /\ UNCHANGED updVars
  /\ UNCHANGED passVars
  /\ UNCHANGED outer
  /\ UNCHANGED auditVars
  /\ UNCHANGED <<diskVars, envVars, appVars, ret, keep_set, renamed, failed,
                 tool_items, remaining, disabled_count, restored_count,
                 restored, ap_running, obsVars>>

\* ReconcileDisableStep without the `if orig in keep_set: continue` guard
ReconcileDisableStep_IgnoresKeepSet ==
  /\ pc = "rec_disable"
  /\ todo # <<>>
  /\ LET p == Head(todo) IN
       /\ todo' = Tail(todo)
       /\ visited' = IF p \in Range(remaining)
                        THEN visited ELSE visited \cup {p}
       /\ IF p \in Range(remaining) \/ dis[p] # NoFile
            THEN UNCHANGED <<en, dis, remaining, failed, disabled_count,
                             renames, tool_disabled, pend_dis>>
            ELSE IF RenameRaises(p, en[p], dis[p])
              THEN /\ failed' = failed \cup {p}
                   /\ pend_dis' = pend_dis \cup {p}
                   /\ UNCHANGED <<en, dis, remaining, disabled_count, renames,
                                  tool_disabled>>
              ELSE /\ dis' = [dis EXCEPT ![p] = en[p]]
                   /\ en' = [en EXCEPT ![p] = NoFile]
                   /\ remaining' = Append(remaining, p)
                   /\ disabled_count' = disabled_count + 1
                   /\ renames' = renames + 1
                   /\ tool_disabled' = tool_disabled \cup {p}
                   /\ UNCHANGED <<failed, pend_dis>>
       /\ UNCHANGED pend_res
  /\ returned' = "none"
  /\ UNCHANGED resVars
  /\ UNCHANGED scanVars
  /\ UNCHANGED updVars
  /\ UNCHANGED passVars
  /\ UNCHANGED outer
  /\ UNCHANGED <<manifest, envVars, appVars, pc, ret, keep_set, renamed,
                 tool_items, restored_count, restored, ap_running, result,
                 snap_en, snap_dis, calls, ext_count, owed>>

\* 2) disable vars not in keep_set (one listing entry);
\*    disabled_by_tool is computed from `remaining` before the loop, and the
\*    loop appends only names that were not in it
ReconcileDisableStep ==
  /\ pc = "rec_disable"
  /\ todo # <<>>
  /\ LET p == Head(todo) IN
       /\ todo' = Tail(todo)
       /\ visited' = IF p \in keep_set \/ p \in Range(remaining)
                        THEN visited ELSE visited \cup {p}
       /\ IF p \in keep_set \/ p \in Range(remaining) \/ dis[p] # NoFile
            THEN UNCHANGED <<en, dis, remaining, failed, disabled_count,
                             renames, tool_disabled, pend_dis>>
            ELSE IF RenameRaises(p, en[p], dis[p])
              THEN /\ failed' = failed \cup {p}
                   /\ pend_dis' = pend_dis \cup {p}
                   /\ UNCHANGED <<en, dis, remaining, disabled_count, renames,
                                  tool_disabled>>
              ELSE /\ dis' = [dis EXCEPT ![p] = en[p]]
                   /\ en' = [en EXCEPT ![p] = NoFile]
                   /\ remaining' = Append(remaining, p)
                   /\ disabled_count' = disabled_count + 1
                   /\ renames' = renames + 1
                   /\ tool_disabled' = tool_disabled \cup {p}
                   /\ UNCHANGED <<failed, pend_dis>>
       /\ UNCHANGED pend_res
  /\ returned' = "none"
  /\ UNCHANGED resVars
  /\ UNCHANGED scanVars
  /\ UNCHANGED updVars
  /\ UNCHANGED passVars
  /\ UNCHANGED outer
  /\ UNCHANGED <<manifest, envVars, appVars, pc, ret, keep_set, renamed,
                 tool_items, restored_count, restored, ap_running, result,
                 snap_en, snap_dis, calls, ext_count, owed>>

\* 3) `mp.write_text` opens the manifest file, which truncates it
ReconcileTruncate ==
  /\ pc = "rec_disable"
  /\ todo = <<>>
  /\ manifest' = Torn
  /\ pc' = "rec_write"
  /\ returned' = "none"
  /\ UNCHANGED resVars
  /\ UNCHANGED scanVars
  /\ UNCHANGED updVars
  /\ UNCHANGED passVars
  /\ UNCHANGED outer
  /\ UNCHANGED auditVars
  /\ UNCHANGED <<en, dis, envVars, appVars, ret, locVars, result, renames,
                 tool_disabled, snap_en, snap_dis, calls, ext_count, owed>>

\* the document is written; return (disabled_count, restored_count), after
\* a warning dialog (`QMessageBox.warning`) when a rename failed
ReconcileWrite ==
  /\ pc = "rec_write"
  /\ manifest' = [exists |-> TRUE, renamed |-> remaining]
  /\ result' = <<disabled_count, restored_count>>
  /\ pc' = IF failed = {} THEN ret ELSE "rec_dialog"
  /\ returned' = "reconcile"
  /\ UNCHANGED resVars
  /\ UNCHANGED scanVars
  /\ UNCHANGED updVars
  /\ UNCHANGED passVars
  /\ UNCHANGED outer
  /\ UNCHANGED auditVars
  /\ remaining' = <<>>
  /\ failed' = {}
  /\ disabled_count' = 0
  /\ restored_count' = 0
  /\ UNCHANGED <<en, dis, envVars, appVars, ret, keep_set, todo, renamed,
                 tool_items, restored, ap_running, renames, tool_disabled,
                 snap_en, snap_dis, calls, ext_count, owed>>

\* the warning dialog of a cold disable or a reconcile is closed: the
\* function returns to its caller
DialogClosed ==
  /\ pc \in Dialogs
  /\ pc' = ret
  /\ UNCHANGED resVars
  /\ UNCHANGED scanVars
  /\ UNCHANGED updVars
  /\ UNCHANGED passVars
  /\ UNCHANGED outer
  /\ UNCHANGED auditVars
  /\ UNCHANGED <<diskVars, envVars, appVars, ret, locVars, obsVars, returned>>

\* ------------------------------------------------ engine: restore
\* restore_offloaded_vars with a readable manifest on disk: read it
CallRestore(r) ==
  /\ manifest.exists
  /\ manifest # Torn
  /\ tool_items' = manifest.renamed
  /\ restored' = 0
  /\ renames' = 0
  /\ visited' = {}
  /\ pend_dis' = {}
  /\ pend_res' = {}
  /\ pc' = "res_loop"
  /\ ret' = r

\* RestoreStep testing only `src.exists()`, the rename replacing the file at
\* the canonical name
RestoreStep_Overwrites ==
  /\ pc = "res_loop"
  /\ tool_items # <<>>
  /\ LET item == Head(tool_items) IN
       /\ tool_items' = Tail(tool_items)
       /\ IF dis[item] # NoFile /\ item \notin locked
            THEN /\ en' = [en EXCEPT ![item] = dis[item]]
                 /\ dis' = [dis EXCEPT ![item] = NoFile]
                 /\ restored' = restored + 1
                 /\ renames' = renames + 1
                 /\ tool_disabled' = tool_disabled \ {item}
                 /\ UNCHANGED pend_res
            ELSE /\ pend_res' = IF dis[item] # NoFile
                                  THEN pend_res \cup {item} ELSE pend_res
                 /\ UNCHANGED <<en, dis, restored, renames, tool_disabled>>
       /\ visited' = visited \cup {item}
       /\ UNCHANGED pend_dis
  /\ returned' = "none"
  /\ UNCHANGED resVars
  /\ UNCHANGED scanVars
  /\ UNCHANGED updVars
  /\ UNCHANGED passVars
  /\ UNCHANGED outer
  /\ UNCHANGED <<manifest, envVars, appVars, pc, ret, keep_set, todo, renamed,
                 failed, remaining, disabled_count, restored_count,
                 ap_running, result, snap_en, snap_dis, calls, ext_count, owed>>

\* one manifest item of restore_offloaded_vars
RestoreStep ==
  /\ pc = "res_loop"
  /\ tool_items # <<>>
  /\ LET item == Head(tool_items) IN
       /\ tool_items' = Tail(tool_items)
       /\ IF dis[item] # NoFile /\ en[item] = NoFile
               /\ ~RenameRaises(item, dis[item], en[item])
            THEN /\ en' = [en EXCEPT ![item] = dis[item]]
                 /\ dis' = [dis EXCEPT ![item] = NoFile]
                 /\ restored' = restored + 1
                 /\ renames' = renames + 1
                 /\ tool_disabled' = tool_disabled \ {item}
                 /\ UNCHANGED pend_res
            ELSE /\ pend_res' = IF dis[item] # NoFile
                                  THEN pend_res \cup {item} ELSE pend_res
                 /\ UNCHANGED <<en, dis, restored, renames, tool_disabled>>
       /\ visited' = visited \cup {item}
       /\ UNCHANGED pend_dis
  /\ returned' = "none"
  /\ UNCHANGED resVars
  /\ UNCHANGED scanVars
  /\ UNCHANGED updVars
  /\ UNCHANGED passVars
  /\ UNCHANGED outer
  /\ UNCHANGED <<manifest, envVars, appVars, pc, ret, keep_set, todo, renamed,
                 failed, remaining, disabled_count, restored_count,
                 ap_running, result, snap_en, snap_dis, calls, ext_count, owed>>

\* RestoreUnlink without `mp.unlink`
RestoreUnlink_LeavesManifest ==
  /\ pc = "res_loop"
  /\ tool_items = <<>>
  /\ lean_active' = FALSE
  /\ vam_seen_running' = FALSE
  /\ poll_timer' = FALSE
  /\ pc' = ret
  /\ returned' = "restore"
  /\ UNCHANGED resVars
  /\ UNCHANGED scanVars
  /\ UNCHANGED updVars
  /\ UNCHANGED passVars
  /\ UNCHANGED outer
  /\ UNCHANGED auditVars
  /\ owed' = FALSE
  /\ UNCHANGED <<en, dis, manifest, envVars, ret, locVars, result, renames,
                 tool_disabled, snap_en, snap_dis, calls, ext_count>>

\* after the loop: the manifest is deleted and the session flags are cleared
RestoreUnlink ==
  /\ pc = "res_loop"
  /\ tool_items = <<>>
  /\ manifest' = NoManifest
  /\ lean_active' = FALSE
  /\ vam_seen_running' = FALSE
  /\ poll_timer' = FALSE
  /\ pc' = ret
  /\ returned' = "restore"
  /\ UNCHANGED resVars
  /\ UNCHANGED scanVars
  /\ UNCHANGED updVars
  /\ UNCHANGED passVars
  /\ UNCHANGED outer
  /\ UNCHANGED auditVars
  /\ owed' = FALSE
  /\ UNCHANGED <<en, dis, envVars, ret, locVars, result, renames,
                 tool_disabled, snap_en, snap_dis, calls, ext_count>>

\* ------------------------------------------------ initial states
\* sequences over S of length at most n
SeqsUpTo(S, n) == UNION {[1..k -> S] : k \in 0..n}

\* any directory: each package Enabled, Disabled, both or Missing
AnyDirectory ==
  /\ en \in [Pkgs -> {NoFile, OwnContent}]
  /\ dis \in [Pkgs -> {NoFile, ForeignContent}]

\* MainWindow.__init__ and the locals of functions that are not running
InitEngineIdle ==
  /\ lean_active = FALSE
  /\ vam_seen_running = FALSE
  /\ poll_timer = FALSE
  /\ pc = "idle"
  /\ ret = "idle"
  /\ outer = NoOuter
  /\ keep_set = {}
  /\ todo = <<>>
  /\ renamed = <<>>
  /\ failed = {}
  /\ tool_items = <<>>
  /\ remaining = <<>>
  /\ disabled_count = 0
  /\ restored_count = 0
  /\ restored = 0
  /\ ap_running = FALSE
  /\ result = <<0, 0>>
  /\ renames = 0
  /\ returned = "none"
  /\ tool_disabled = {}
  /\ calls = 0
  /\ ext_count = 0
  /\ owed = FALSE
  /\ visited = {}
  /\ pend_dis = {}
  /\ pend_res = {}
  /\ prev_pend_dis = {}
  /\ prev_pend_res = {}

\* _load_scene_cache when the cache file does not exist: {}
NoCache ==
  [file |-> FALSE, version |-> 0, addon |-> 0, vars |-> <<>>,
   all_var_sigs |-> <<>>, all_deps |-> <<>>, loose |-> 0]

\* no folder scanned, no worker running
InitScanIdle ==
  /\ present = {}
  /\ sig = <<>>
  /\ kind = <<>>
  /\ scene = {}
  /\ loose = 0
  /\ addon = 1
  /\ cache = NoCache
  /\ scene_entries = {}
  /\ var_deps_cache = <<>>
  /\ spc = "idle"
  /\ needs = "none"
  /\ opened = {}
  /\ changes = 0

InitApp == InitEngineIdle /\ InitScanIdle

\* updater.exe has not been started; exit_code is -1 until main returns
InitUpdaterIdle ==
  /\ argc = 0
  /\ current_exe = "none"
  /\ backup = "none"
  /\ new_exe = "none"
  /\ upc = "idle"
  /\ backup_tries = 0
  /\ copy_tries = 0
  /\ exit_code = 0 - 1
  /\ snap_current_exe = "none"

\* no resolution in progress
InitResolverIdle ==
  /\ all_vars = {}
  /\ var_deps = <<>>
  /\ scene_vars = {}
  /\ keep = {}
  /\ queue = <<>>
  /\ seeds_todo = {}
  /\ dep = <<>>
  /\ matched = {}
  /\ rpc = "idle"
  /\ run = 1
  /\ keep1 = {}
  /\ enq_count = [v \in all_vars |-> 0]
  /\ off_top = FALSE

\* ------------------------------------------------ round trip: disable, restore
InitRoundTrip ==
  /\ AnyDirectory
  /\ manifest = NoManifest
  /\ locked = {}
  /\ running = FALSE
  /\ snap_en = en
  /\ snap_dis = dis
  /\ snap_manifest = manifest
  /\ InitApp
  /\ InitUpdaterIdle
  /\ InitResolverIdle

RTDisable ==
  /\ pc = "idle"
  /\ calls = 0
  /\ \E ks \in SUBSET Pkgs : CallDisable(ks, "rt_mid")
  /\ calls' = 1
  /\ returned' = "none"
  /\ UNCHANGED resVars
  /\ UNCHANGED scanVars
  /\ UNCHANGED updVars
  /\ UNCHANGED passVars
  /\ UNCHANGED outer
  /\ UNCHANGED <<diskVars, envVars, appVars, tool_items, remaining,
                 disabled_count, restored_count, restored, ap_running,
                 result, tool_disabled, snap_en, snap_dis, ext_count, owed>>

RTRestore ==
  /\ pc = "rt_mid"
  /\ CallRestore("rt_done")
  /\ calls' = 2
  /\ returned' = "none"
  /\ UNCHANGED resVars
  /\ UNCHANGED scanVars
  /\ UNCHANGED updVars
  /\ UNCHANGED passVars
  /\ UNCHANGED outer
  /\ UNCHANGED <<diskVars, envVars, appVars, keep_set, todo, renamed, failed,
                 remaining, disabled_count, restored_count, ap_running,
                 result, tool_disabled, snap_en, snap_dis, ext_count, owed>>

NextRoundTrip ==
  \/ RTDisable
  \/ DisableStep
  \/ DisableTruncate
  \/ DisableWrite
  \/ RTRestore
  \/ RestoreStep
  \/ RestoreUnlink

SpecRoundTrip == InitRoundTrip /\ [][NextRoundTrip]_vars

\* ------------------------------------------------ reconcile called twice
InitTwice ==
  /\ AnyDirectory
  /\ manifest \in {NoManifest}
       \cup {[exists |-> TRUE, renamed |-> s] : s \in SeqsUpTo(Pkgs, MaxManifest)}
  /\ locked \in {L \in SUBSET Pkgs : Cardinality(L) <= MaxLocked}
  /\ running = FALSE
  /\ snap_en = en
  /\ snap_dis = dis
  /\ snap_manifest = manifest
  /\ InitApp
  /\ InitUpdaterIdle
  /\ InitResolverIdle

TwiceFirst ==
  /\ pc = "idle"
  /\ calls = 0
  /\ \E ks \in SUBSET Pkgs : CallReconcile(ks, "rc_mid")
  /\ calls' = 1
  /\ returned' = "none"
  /\ UNCHANGED resVars
  /\ UNCHANGED scanVars
  /\ UNCHANGED updVars
  /\ UNCHANGED passVars
  /\ UNCHANGED outer
  /\ UNCHANGED <<diskVars, envVars, appVars, todo, renamed, restored,
                 ap_running, result, tool_disabled, snap_en, snap_dis, ext_count, owed>>

TwiceSecond ==
  /\ pc = "rc_mid"
  /\ CallReconcile(keep_set, "rc_done")
  /\ calls' = 2
  /\ returned' = "none"
  /\ UNCHANGED resVars
  /\ UNCHANGED scanVars
  /\ UNCHANGED updVars
  /\ UNCHANGED passVars
  /\ UNCHANGED outer
  /\ UNCHANGED <<diskVars, envVars, appVars, todo, renamed, restored,
                 ap_running, result, tool_disabled, snap_en, snap_dis, ext_count, owed>>

NextTwice ==
  \/ TwiceFirst
  \/ TwiceSecond
  \/ ReconcileRestoreStep
  \/ ReconcileList
  \/ ReconcileDisableStep
  \/ ReconcileTruncate
  \/ ReconcileWrite
  \/ DialogClosed

SpecTwice == InitTwice /\ [][NextTwice]_vars

\* ------------------------------------------------ one pass and its retry
\* An engine function is called on any directory, manifest and set of locked
\* files, and a second engine function is called after it returned.
PassLabel == IF calls = 0 THEN "pass1_done" ELSE "pass2_done"

PassDisable ==
  /\ pc \in {"idle", "pass1_done"}
  /\ \E ks \in SUBSET Pkgs : CallDisable(ks, PassLabel)
  /\ calls' = calls + 1
  /\ prev_pend_dis' = pend_dis
  /\ prev_pend_res' = pend_res
  /\ UNCHANGED outer
  /\ returned' = "none"
  /\ UNCHANGED resVars
  /\ UNCHANGED scanVars
  /\ UNCHANGED updVars
  /\ UNCHANGED <<diskVars, envVars, appVars, tool_items, remaining,
                 disabled_count, restored_count, restored, ap_running,
                 result, tool_disabled, snap_en, snap_dis, ext_count, owed,
                 snap_manifest>>

PassReconcile ==
  /\ pc \in {"idle", "pass1_done"}
  /\ \E ks \in SUBSET Pkgs : CallReconcile(ks, PassLabel)
  /\ calls' = calls + 1
  /\ prev_pend_dis' = pend_dis
  /\ prev_pend_res' = pend_res
  /\ UNCHANGED outer
  /\ returned' = "none"
  /\ UNCHANGED resVars
  /\ UNCHANGED scanVars
  /\ UNCHANGED updVars
  /\ UNCHANGED <<diskVars, envVars, appVars, todo, renamed, restored,
                 ap_running, result, tool_disabled, snap_en, snap_dis,
                 ext_count, owed, snap_manifest>>

PassRestore ==
  /\ pc \in {"idle", "pass1_done"}
  /\ CallRestore(PassLabel)
  /\ calls' = calls + 1
  /\ prev_pend_dis' = pend_dis
  /\ prev_pend_res' = pend_res
  /\ UNCHANGED outer
  /\ returned' = "none"
  /\ UNCHANGED resVars
  /\ UNCHANGED scanVars
  /\ UNCHANGED updVars
  /\ UNCHANGED <<diskVars, envVars, appVars, keep_set, todo, renamed, failed,
                 remaining, disabled_count, restored_count, ap_running,
                 result, tool_disabled, snap_en, snap_dis, ext_count, owed,
                 snap_manifest>>

\* restore_offloaded_vars with no manifest on disk: "Nothing to restore"
PassRestoreNothing ==
  /\ pc \in {"idle", "pass1_done"}
  /\ ~manifest.exists
  /\ pc' = PassLabel
  /\ calls' = calls + 1
  /\ prev_pend_dis' = pend_dis
  /\ prev_pend_res' = pend_res
  /\ UNCHANGED outer
  /\ visited' = {}
  /\ pend_dis' = {}
  /\ pend_res' = {}
  /\ renames' = 0
  /\ returned' = "restore"
  /\ UNCHANGED resVars
  /\ UNCHANGED scanVars
  /\ UNCHANGED updVars
  /\ UNCHANGED <<diskVars, envVars, appVars, ret, locVars, result,
                 tool_disabled, snap_en, snap_dis, ext_count, owed,
                 snap_manifest>>

NextPass ==
  \/ PassDisable
  \/ PassReconcile
  \/ PassRestore
  \/ PassRestoreNothing
  \/ DisableStep
  \/ DisableTruncate
  \/ DisableWrite
  \/ ReconcileRestoreStep
  \/ ReconcileList
  \/ ReconcileDisableStep
  \/ ReconcileTruncate
  \/ ReconcileWrite
  \/ RestoreStep
  \/ RestoreUnlink
  \/ DialogClosed

SpecPass == InitTwice /\ [][NextPass]_vars

\* ------------------------------------------------ names and tokens
\* A file name or dependency token is the sequence of its characters.
UpperToLower ==
  [A |-> "a", B |-> "b", C |-> "c", D |-> "d", E |-> "e", F |-> "f",
   G |-> "g", H |-> "h", I |-> "i", J |-> "j", K |-> "k", L |-> "l",
   M |-> "m", N |-> "n", O |-> "o", P |-> "p", Q |-> "q", R |-> "r",
   S |-> "s", T |-> "t", U |-> "u", V |-> "v", W |-> "w", X |-> "x",
   Y |-> "y", Z |-> "z"]

\* str.lower()
Lower(str) ==
  [i \in DOMAIN str |->
     IF str[i] \in DOMAIN UpperToLower THEN UpperToLower[str[i]] ELSE str[i]]

\* str.startswith(prefix), str.endswith(suffix), `sub in str`
StartsWith(str, prefix) ==
  /\ Len(prefix) <= Len(str)
  /\ SubSeq(str, 1, Len(prefix)) = prefix

EndsWith(str, suffix) ==
  /\ Len(suffix) <= Len(str)
  /\ SubSeq(str, Len(str) - Len(suffix) + 1, Len(str)) = suffix

Contains(str, sub) ==
  \E i \in 1..(Len(str) - Len(sub) + 1) : SubSeq(str, i, i + Len(sub) - 1) = sub

DotVar == <<".", "v", "a", "r">>
DotLatest == <<".", "l", "a", "t", "e", "s", "t">>
Dot == <<".">>

\* core/resolver.py
is_asset_var(var_name) ==
  LET lname == Lower(var_name) IN
    \/ Contains(lname, <<"[", "a", "s", "s", "e", "t", "]">>)
    \/ Contains(lname, <<"[", "a", "s", "s", "e", "t", "s", "]">>)
    \/ Contains(lname, <<".", "a", "s", "s", "e", "t">>)

\* Protected without the "[plugin]" names
Protected_AssetsOnly(universe) == {v \in universe : is_asset_var(v)}

\* protected set of compute_keep_set_for_scene_vars
Protected(universe) ==
  {v \in universe : is_asset_var(v)}
    \cup {v \in universe : Contains(Lower(v), <<"[", "p", "l", "u", "g", "i", "n", "]">>)}

\* core/resolver.py; the list it returns has no repeated element and is
\* represented by the set of its elements
resolve_dependency(dep_name, universe) ==
  IF EndsWith(dep_name, DotVar)
    THEN IF dep_name \in universe THEN {dep_name} ELSE {}
    ELSE IF EndsWith(dep_name, DotLatest)
      THEN LET base == SubSeq(dep_name, 1, Len(dep_name) - Len(DotLatest)) IN
             {v \in universe : StartsWith(v, base \o Dot) /\ EndsWith(v, DotVar)}
      ELSE LET exact == dep_name \o DotVar IN
             IF exact \in universe THEN {exact} ELSE {}

\* the files and tokens the resolutions are run on
SceneVar == <<"S", "c", "e", "n", "e", ".", "v", "a", "r">>
Hair1Var == <<"H", "a", "i", "r", ".", "1", ".", "v", "a", "r">>
Hair2Var == <<"H", "a", "i", "r", ".", "2", ".", "v", "a", "r">>
Hair3VAR == <<"H", "a", "i", "r", ".", "3", ".", "V", "A", "R">>
PropVar == <<"P", "r", "o", "p", ".", "v", "a", "r">>
AssetsVar == <<"[", "A", "s", "s", "e", "t", "s", "]", "T", ".", "v", "a", "r">>
PluginVar == <<"X", ".", "[", "P", "l", "u", "g", "i", "n", "]", ".", "v", "a", "r">>

HairLatest == <<"H", "a", "i", "r", ".", "l", "a", "t", "e", "s", "t">>
PropBare == <<"P", "r", "o", "p">>

NamePool == {SceneVar, Hair1Var, Hair2Var, Hair3VAR, PropVar, AssetsVar, PluginVar}
TokenPool == {HairLatest, Hair1Var, PropBare, SceneVar}

MaxUniverse == 4
MaxDeps == 2
MaxSeeds == 1

\* fast_list_vars_all_states lists a file when its lower-cased name ends in
\* ".var" (or ".var.disabled", which is stripped)
ListedNames == {v \in NamePool : EndsWith(Lower(v), DotVar)}

\* the packages a resolution is seeded with are scene packages
SeedPool == {SceneVar, PropVar, Hair1Var}

\* the dependency lists given by a sequence of (package, token) declarations
RECURSIVE DepsOf(_, _)
DepsOf(decls, universe) ==
  IF decls = <<>> THEN [v \in universe |-> <<>>]
  ELSE LET rest == DepsOf(SubSeq(decls, 1, Len(decls) - 1), universe)
           last == decls[Len(decls)]
       IN [rest EXCEPT ![last[1]] = Append(@, last[2])]

\* ------------------------------------------------ resolver steps
\* compute_keep_set_for_scene_vars up to the first loop
ResolveBegin ==
  /\ rpc = "start"
  /\ keep' = Protected(all_vars)
  /\ queue' = <<>>
  /\ seeds_todo' = scene_vars
  /\ dep' = <<>>
  /\ rpc' = "seed"
  /\ enq_count' = [v \in all_vars |-> 0]
  /\ UNCHANGED <<all_vars, var_deps, scene_vars, matched, run, keep1, off_top>>
  /\ UNCHANGED engVars
  /\ UNCHANGED scanVars
  /\ UNCHANGED updVars

\* one iteration of `for scene_var in scene_vars`
SeedStep ==
  /\ rpc = "seed"
  /\ \E scene_var \in seeds_todo :
       /\ seeds_todo' = seeds_todo \ {scene_var}
       /\ IF scene_var \in all_vars
            THEN /\ keep' = keep \cup {scene_var}
                 /\ queue' = queue \o var_deps[scene_var]
                 /\ enq_count' = [enq_count EXCEPT ![scene_var] = @ + 1]
            ELSE UNCHANGED <<keep, queue, enq_count>>
  /\ UNCHANGED <<all_vars, var_deps, scene_vars, dep, matched, rpc, run, keep1,
                 off_top>>
  /\ UNCHANGED engVars
  /\ UNCHANGED scanVars
  /\ UNCHANGED updVars

\* `while queue: dep = queue.pop()` and the call of resolve_dependency
PopStep ==
  /\ rpc = "seed"
  /\ seeds_todo = {}
  /\ matched = {}
  /\ queue # <<>>
  /\ dep' = queue[Len(queue)]
  /\ queue' = SubSeq(queue, 1, Len(queue) - 1)
  /\ matched' = resolve_dependency(queue[Len(queue)], all_vars)
  /\ UNCHANGED <<all_vars, var_deps, scene_vars, keep, seeds_todo, rpc, run,
                 keep1, enq_count, off_top>>
  /\ UNCHANGED engVars
  /\ UNCHANGED scanVars
  /\ UNCHANGED updVars

\* MatchStep that keeps the match but does not enqueue its dependencies
MatchStep_NoRecursion ==
  /\ rpc = "seed"
  /\ \E matched_var \in matched :
       /\ matched' = matched \ {matched_var}
       /\ keep' = keep \cup {matched_var}
  /\ UNCHANGED <<all_vars, var_deps, scene_vars, queue, seeds_todo, dep, rpc,
                 run, keep1, enq_count, off_top>>
  /\ UNCHANGED engVars
  /\ UNCHANGED scanVars
  /\ UNCHANGED updVars

\* MatchStep without the `if matched_var not in keep` test
MatchStep_AlwaysEnqueues ==
  /\ rpc = "seed"
  /\ \E matched_var \in matched :
       /\ matched' = matched \ {matched_var}
       /\ keep' = keep \cup {matched_var}
       /\ queue' = queue \o var_deps[matched_var]
       /\ enq_count' = [enq_count EXCEPT ![matched_var] = @ + 1]
  /\ UNCHANGED <<all_vars, var_deps, scene_vars, seeds_todo, dep, rpc, run,
                 keep1, off_top>>
  /\ UNCHANGED engVars
  /\ UNCHANGED scanVars
  /\ UNCHANGED updVars

\* one iteration of `for matched_var in resolve_dependency(dep, all_vars)`
MatchStep ==
  /\ rpc = "seed"
  /\ \E matched_var \in matched :
       /\ matched' = matched \ {matched_var}
       /\ IF matched_var \notin keep
            THEN /\ keep' = keep \cup {matched_var}
                 /\ queue' = queue \o var_deps[matched_var]
                 /\ enq_count' = [enq_count EXCEPT ![matched_var] = @ + 1]
            ELSE UNCHANGED <<keep, queue, enq_count>>
  /\ UNCHANGED <<all_vars, var_deps, scene_vars, seeds_todo, dep, rpc, run,
                 keep1, off_top>>
  /\ UNCHANGED engVars
  /\ UNCHANGED scanVars
  /\ UNCHANGED updVars

\* `return keep`
ResolveReturn ==
  /\ rpc = "seed"
  /\ seeds_todo = {}
  /\ matched = {}
  /\ queue = <<>>
  /\ rpc' = "done"
  /\ UNCHANGED <<all_vars, var_deps, scene_vars, keep, queue, seeds_todo, dep,
                 matched, run, keep1, enq_count, off_top>>
  /\ UNCHANGED engVars
  /\ UNCHANGED scanVars
  /\ UNCHANGED updVars

\* the keep set returned is used as the seed of a second resolution
ResolveAgain ==
  /\ rpc = "done"
  /\ run = 1
  /\ run' = 2
  /\ keep1' = keep
  /\ scene_vars' = keep
  /\ rpc' = "start"
  /\ UNCHANGED <<all_vars, var_deps, keep, queue, seeds_todo, dep, matched,
                 enq_count, off_top>>
  /\ UNCHANGED engVars
  /\ UNCHANGED scanVars
  /\ UNCHANGED updVars

\* any universe of listed files, any dependency lists, any seed set
InitResolve ==
  /\ all_vars \in {U \in SUBSET ListedNames : Cardinality(U) <= MaxUniverse}
  /\ \E decls \in SeqsUpTo(all_vars \X TokenPool, MaxDeps) :
       var_deps = DepsOf(decls, all_vars)
  /\ scene_vars \in {S \in SUBSET SeedPool : Cardinality(S) <= MaxSeeds}
  /\ keep = {}
  /\ queue = <<>>
  /\ seeds_todo = {}
  /\ dep = <<>>
  /\ matched = {}
  /\ rpc = "start"
  /\ run = 1
  /\ keep1 = {}
  /\ enq_count = [v \in all_vars |-> 0]
  /\ off_top = FALSE
  /\ en = [p \in Pkgs |-> NoFile]
  /\ dis = [p \in Pkgs |-> NoFile]
  /\ manifest = NoManifest
  /\ locked = {}
  /\ running = FALSE
  /\ snap_en = [p \in Pkgs |-> NoFile]
  /\ snap_dis = [p \in Pkgs |-> NoFile]
  /\ snap_manifest = NoManifest
  /\ InitApp
  /\ InitUpdaterIdle

NextResolve ==
  \/ ResolveBegin
  \/ SeedStep
  \/ PopStep
  \/ MatchStep
  \/ ResolveReturn
  \/ ResolveAgain

SpecResolve == InitResolve /\ [][NextResolve]_vars

C2_SecondReconcileIsNoOp ==
  pc = "rc_done" => result = <<0, 0>> /\ renames = 0

\* the second call returned after a first call that restored one package
\* and disabled another
C2_Witness ==
  /\ pc = "rc_done"
  /\ \E p, q \in Pkgs :
       /\ snap_en[p] = NoFile /\ en[p] # NoFile
       /\ snap_en[q] # NoFile /\ en[q] = NoFile

\* ------------------------------------------------ session handlers
\* a handler returns to the event loop: its locals are gone
ClearLocals ==
  /\ keep_set' = {}
  /\ todo' = <<>>
  /\ renamed' = <<>>
  /\ failed' = {}
  /\ tool_items' = <<>>
  /\ remaining' = <<>>
  /\ disabled_count' = 0
  /\ restored_count' = 0
  /\ restored' = 0
  /\ ap_running' = FALSE
  /\ result' = <<0, 0>>
  /\ renames' = 0
  /\ visited' = {}
  /\ pend_dis' = {}
  /\ pend_res' = {}

HandlerEnd ==
  /\ pc = "handler_end"
  /\ pc' = "idle"
  /\ ClearLocals
  /\ returned' = "none"
  /\ UNCHANGED resVars
  /\ UNCHANGED scanVars
  /\ UNCHANGED updVars
  /\ UNCHANGED passVars
  /\ UNCHANGED outer
  /\ UNCHANGED <<diskVars, envVars, appVars, ret, tool_disabled, snap_en,
                 snap_dis, calls, ext_count, owed>>

\* _start_lean_session_or_warn up to the call of the cold disable: refused
\* while VaM runs or while lean_active is set; ks is the keep set computed
\* from the current scene selection
LaunchBegin ==
  /\ pc = "idle"
  /\ ~running
  /\ ~lean_active
  /\ \E ks \in SUBSET Pkgs : CallDisable(ks, "launch_done")
  /\ returned' = "none"
  /\ UNCHANGED resVars
  /\ UNCHANGED scanVars
  /\ UNCHANGED updVars
  /\ UNCHANGED passVars
  /\ UNCHANGED outer
  /\ UNCHANGED <<diskVars, envVars, appVars, tool_items, remaining,
                 disabled_count, restored_count, restored, ap_running,
                 result, tool_disabled, snap_en, snap_dis, calls, ext_count, owed>>

\* _start_lean_session_or_warn after the cold disable returned
LaunchDone ==
  /\ pc = "launch_done"
  /\ lean_active' = TRUE
  /\ vam_seen_running' = FALSE
  /\ poll_timer' = TRUE
  /\ pc' = "launch_popen"
  /\ returned' = "none"
  /\ UNCHANGED resVars
  /\ UNCHANGED scanVars
  /\ UNCHANGED updVars
  /\ UNCHANGED passVars
  /\ UNCHANGED outer
  /\ UNCHANGED auditVars
  /\ UNCHANGED <<diskVars, envVars, ret, locVars, obsVars>>

\* launch_vam_exe_lean / launch_vam_launcher_lean: the process was started
LaunchPopen ==
  /\ pc = "launch_popen"
  /\ pc' = "idle"
  /\ ClearLocals
  /\ returned' = "none"
  /\ UNCHANGED resVars
  /\ UNCHANGED scanVars
  /\ UNCHANGED updVars
  /\ UNCHANGED passVars
  /\ UNCHANGED outer
  /\ UNCHANGED <<diskVars, envVars, appVars, ret, tool_disabled, snap_en,
                 snap_dis, calls, ext_count, owed>>

\* the executable was not found or Popen raised: restore at once
LaunchFailed ==
  /\ pc = "launch_popen"
  /\ CallRestore("handler_end")
  /\ returned' = "none"
  /\ UNCHANGED resVars
  /\ UNCHANGED scanVars
  /\ UNCHANGED updVars
  /\ UNCHANGED passVars
  /\ UNCHANGED outer
  /\ UNCHANGED <<diskVars, envVars, appVars, keep_set, todo, renamed, failed,
                 remaining, disabled_count, restored_count, ap_running,
                 result, tool_disabled, snap_en, snap_dis, calls, ext_count, owed>>

\* apply_selection_now_clicked with VaM running and no manifest: the cold
\* disable creates the manifest first
ApplyStartSession ==
  /\ pc = "idle"
  /\ running
  /\ ~manifest.exists
  /\ ap_running' = running
  /\ \E ks \in SUBSET Pkgs : CallDisable(ks, "apply_live")
  /\ returned' = "none"
  /\ UNCHANGED resVars
  /\ UNCHANGED scanVars
  /\ UNCHANGED updVars
  /\ UNCHANGED passVars
  /\ UNCHANGED outer
  /\ UNCHANGED <<diskVars, envVars, appVars, tool_items, remaining,
                 disabled_count, restored_count, restored,
                 result, tool_disabled, snap_en, snap_dis, calls, ext_count, owed>>

\* ... then the live apply runs with the same keep set
ApplyAfterDisable ==
  /\ pc = "apply_live"
  /\ CallReconcile(keep_set, "apply_done")
  /\ returned' = "none"
  /\ UNCHANGED resVars
  /\ UNCHANGED scanVars
  /\ UNCHANGED updVars
  /\ UNCHANGED passVars
  /\ UNCHANGED outer
  /\ UNCHANGED <<diskVars, envVars, appVars, todo, renamed, restored,
                 ap_running, result, tool_disabled, snap_en, snap_dis, calls,
                 ext_count, owed>>

\* apply_selection_now_clicked with a manifest on disk: live apply only
ApplyLive ==
  /\ pc = "idle"
  /\ manifest.exists
  /\ ap_running' = running
  /\ \E ks \in SUBSET Pkgs : CallReconcile(ks, "apply_done")
  /\ returned' = "none"
  /\ UNCHANGED resVars
  /\ UNCHANGED scanVars
  /\ UNCHANGED updVars
  /\ UNCHANGED passVars
  /\ UNCHANGED outer
  /\ UNCHANGED <<diskVars, envVars, appVars, todo, renamed, restored,
                 result, tool_disabled, snap_en, snap_dis, calls, ext_count, owed>>

\* apply_selection_now_clicked after _apply_keep_set_live returned
ApplyDone ==
  /\ pc = "apply_done"
  /\ lean_active' = TRUE
  /\ vam_seen_running' = ap_running
  /\ poll_timer' = TRUE
  /\ pc' = "idle"
  /\ ClearLocals
  /\ returned' = "none"
  /\ UNCHANGED resVars
  /\ UNCHANGED scanVars
  /\ UNCHANGED updVars
  /\ UNCHANGED passVars
  /\ UNCHANGED outer
  /\ UNCHANGED <<diskVars, envVars, ret, tool_disabled, snap_en, snap_dis,
                 calls, ext_count, owed>>

\* check_vam_state, first branch: VaM seen running for the first time
PollSeesRunning ==
  /\ pc = "idle"
  /\ poll_timer
  /\ lean_active
  /\ running /\ ~vam_seen_running
  /\ vam_seen_running' = TRUE
  /\ returned' = "none"
  /\ UNCHANGED resVars
  /\ UNCHANGED scanVars
  /\ UNCHANGED updVars
  /\ UNCHANGED passVars
  /\ UNCHANGED outer
  /\ UNCHANGED auditVars
  /\ UNCHANGED <<diskVars, envVars, lean_active, poll_timer, pc, ret, locVars,
                 obsVars>>

\* check_vam_state restoring as soon as VaM is not running, seen before or not
PollRestores_WithoutSeenRunning ==
  /\ pc = "idle"
  /\ poll_timer
  /\ lean_active
  /\ ~running
  /\ CallRestore("handler_end")
  /\ returned' = "none"
  /\ UNCHANGED resVars
  /\ UNCHANGED scanVars
  /\ UNCHANGED updVars
  /\ UNCHANGED passVars
  /\ UNCHANGED outer
  /\ UNCHANGED <<diskVars, envVars, appVars, keep_set, todo, renamed, failed,
                 remaining, disabled_count, restored_count, ap_running,
                 result, tool_disabled, snap_en, snap_dis, calls, ext_count, owed>>

\* check_vam_state, second branch: VaM was seen running and is gone
PollRestores ==
  /\ pc = "idle"
  /\ poll_timer
  /\ lean_active
  /\ ~(running /\ ~vam_seen_running)
  /\ vam_seen_running /\ ~running
  /\ CallRestore("handler_end")
  /\ returned' = "none"
  /\ UNCHANGED resVars
  /\ UNCHANGED scanVars
  /\ UNCHANGED updVars
  /\ UNCHANGED passVars
  /\ UNCHANGED outer
  /\ UNCHANGED <<diskVars, envVars, appVars, keep_set, todo, renamed, failed,
                 remaining, disabled_count, restored_count, ap_running,
                 result, tool_disabled, snap_en, snap_dis, calls, ext_count, owed>>

\* The warning dialog runs an event loop of its own, in which the poll timer
\* fires: check_vam_state, first branch, while the dialog is open
DialogPollSeesRunning ==
  /\ pc \in Dialogs
  /\ poll_timer
  /\ lean_active
  /\ running /\ ~vam_seen_running
  /\ vam_seen_running' = TRUE
  /\ UNCHANGED resVars
  /\ UNCHANGED scanVars
  /\ UNCHANGED updVars
  /\ UNCHANGED passVars
  /\ UNCHANGED outer
  /\ UNCHANGED auditVars
  /\ UNCHANGED <<diskVars, envVars, lean_active, poll_timer, pc, ret, locVars,
                 obsVars, returned>>

\* DialogPollRestores with the timer handler running at any statement of an
\* engine function, as a handler on a second thread would
DialogPollRestores_AtAnyStatement ==
  /\ pc \in Dialogs \cup {"dis_loop", "dis_write", "rec_restore",
                          "rec_disable", "rec_write"}
  /\ poll_timer
  /\ lean_active
  /\ ~(running /\ ~vam_seen_running)
  /\ vam_seen_running /\ ~running
  /\ outer' = [pc |-> pc, ret |-> ret]
  /\ CallRestore("dialog_back")
  /\ returned' = "none"
  /\ UNCHANGED resVars
  /\ UNCHANGED scanVars
  /\ UNCHANGED updVars
  /\ UNCHANGED passVars
  /\ UNCHANGED <<diskVars, envVars, appVars, keep_set, todo, renamed, failed,
                 remaining, disabled_count, restored_count, ap_running,
                 result, tool_disabled, snap_en, snap_dis, calls, ext_count, owed>>

\* check_vam_state, second branch, while the dialog is open:
\* restore_offloaded_vars runs on top of the function that shows the dialog
DialogPollRestores ==
  /\ pc \in Dialogs
  /\ poll_timer
  /\ lean_active
  /\ ~(running /\ ~vam_seen_running)
  /\ vam_seen_running /\ ~running
  /\ outer' = [pc |-> pc, ret |-> ret]
  /\ CallRestore("dialog_back")
  /\ returned' = "none"
  /\ UNCHANGED resVars
  /\ UNCHANGED scanVars
  /\ UNCHANGED updVars
  /\ UNCHANGED passVars
  /\ UNCHANGED <<diskVars, envVars, appVars, keep_set, todo, renamed, failed,
                 remaining, disabled_count, restored_count, ap_running,
                 result, tool_disabled, snap_en, snap_dis, calls, ext_count, owed>>

\* the timer handler returns to the dialog's event loop
DialogPollReturns ==
  /\ pc = "dialog_back"
  /\ pc' = outer.pc
  /\ ret' = outer.ret
  /\ outer' = NoOuter
  /\ restored' = 0
  /\ renames' = 0
  /\ UNCHANGED resVars
  /\ UNCHANGED scanVars
  /\ UNCHANGED updVars
  /\ UNCHANGED passVars
  /\ UNCHANGED auditVars
  /\ UNCHANGED <<diskVars, envVars, appVars, keep_set, todo, renamed, failed,
                 tool_items, remaining, disabled_count, restored_count,
                 ap_running, result, returned, tool_disabled, snap_en,
                 snap_dis, calls, ext_count, owed>>

\* check_vam_state when neither branch applies
PollNothing ==
  /\ pc = "idle"
  /\ poll_timer
  /\ \/ ~lean_active
     \/ /\ ~(running /\ ~vam_seen_running)
        /\ ~(vam_seen_running /\ ~running)
  /\ returned' = "none"
  /\ UNCHANGED resVars
  /\ UNCHANGED scanVars
  /\ UNCHANGED updVars
  /\ UNCHANGED passVars
  /\ UNCHANGED outer
  /\ UNCHANGED auditVars
  /\ UNCHANGED <<diskVars, envVars, appVars, pc, ret, locVars, obsVars>>

\* btn_restore clicked (restore_offloaded_vars) with a manifest on disk
ManualRestore ==
  /\ pc = "idle"
  /\ CallRestore("handler_end")
  /\ returned' = "none"
  /\ UNCHANGED resVars
  /\ UNCHANGED scanVars
  /\ UNCHANGED updVars
  /\ UNCHANGED passVars
  /\ UNCHANGED outer
  /\ UNCHANGED <<diskVars, envVars, appVars, keep_set, todo, renamed, failed,
                 remaining, disabled_count, restored_count, ap_running,
                 result, tool_disabled, snap_en, snap_dis, calls, ext_count, owed>>

\* restore_offloaded_vars (button or poll timer) with a manifest that
\* json.loads cannot read: a warning, and it returns with nothing changed
RestoreUnreadable ==
  /\ pc = "idle"
  /\ manifest = Torn
  /\ returned' = "restore"
  /\ UNCHANGED resVars
  /\ UNCHANGED scanVars
  /\ UNCHANGED updVars
  /\ UNCHANGED passVars
  /\ UNCHANGED outer
  /\ UNCHANGED auditVars
  /\ UNCHANGED <<diskVars, envVars, appVars, pc, ret, locVars, result,
                 renames, tool_disabled, snap_en, snap_dis, calls,
                 ext_count, owed>>

\* the tool process stops at any point and is started again: __init__
Restart ==
  /\ lean_active' = FALSE
  /\ vam_seen_running' = FALSE
  /\ poll_timer' = FALSE
  /\ pc' = "idle"
  /\ ret' = "idle"
  /\ ClearLocals
  /\ returned' = "restart"
  /\ UNCHANGED resVars
  /\ UNCHANGED scanVars
  /\ UNCHANGED updVars
  /\ UNCHANGED passVars
  /\ outer' = NoOuter
  /\ owed' = FALSE
  /\ UNCHANGED <<diskVars, envVars, tool_disabled, snap_en, snap_dis, calls,
                 ext_count>>

\* ------------------------------------------------ environment
HostStart ==
  /\ pc = "idle"
  /\ ~running
  /\ running' = TRUE
  /\ returned' = "none"
  /\ UNCHANGED resVars
  /\ UNCHANGED scanVars
  /\ UNCHANGED updVars
  /\ UNCHANGED passVars
  /\ UNCHANGED outer
  /\ UNCHANGED auditVars
  /\ UNCHANGED <<diskVars, locked, appVars, pc, ret, locVars, obsVars>>

HostStop ==
  /\ pc = "idle"
  /\ running
  /\ running' = FALSE
  /\ owed' = (owed \/ lean_active)
  /\ returned' = "none"
  /\ UNCHANGED resVars
  /\ UNCHANGED scanVars
  /\ UNCHANGED updVars
  /\ UNCHANGED passVars
  /\ UNCHANGED outer
  /\ UNCHANGED auditVars
  /\ UNCHANGED <<diskVars, locked, appVars, pc, ret, locVars, result, renames,
                 tool_disabled, snap_en, snap_dis, calls, ext_count>>

\* someone else deletes a package file or puts one under a package's name
ExternalChange ==
  /\ pc = "idle"
  /\ ext_count < MaxExternal
  /\ ext_count' = ext_count + 1
  /\ \E p \in Pkgs :
       \/ en[p] # NoFile /\ en' = [en EXCEPT ![p] = NoFile] /\ UNCHANGED dis
       \/ dis[p] # NoFile /\ dis' = [dis EXCEPT ![p] = NoFile] /\ UNCHANGED en
       \/ en[p] = NoFile /\ en' = [en EXCEPT ![p] = ForeignContent]
                         /\ UNCHANGED dis
       \/ dis[p] = NoFile /\ dis' = [dis EXCEPT ![p] = ForeignContent]
                          /\ UNCHANGED en
  /\ returned' = "none"
  /\ UNCHANGED resVars
  /\ UNCHANGED scanVars
  /\ UNCHANGED updVars
  /\ UNCHANGED passVars
  /\ UNCHANGED outer
  /\ UNCHANGED auditVars
  /\ UNCHANGED <<manifest, envVars, appVars, pc, ret, locVars, result,
                 renames, tool_disabled, snap_en, snap_dis, calls, owed>>

\* another process takes or releases a lock on a package file
LockChange ==
  /\ pc = "idle"
  /\ \E p \in Pkgs :
       \/ /\ p \notin locked
          /\ Cardinality(locked) < MaxLocked
          /\ locked' = locked \cup {p}
       \/ /\ p \in locked
          /\ locked' = locked \ {p}
  /\ returned' = "none"
  /\ UNCHANGED resVars
  /\ UNCHANGED scanVars
  /\ UNCHANGED updVars
  /\ UNCHANGED passVars
  /\ UNCHANGED outer
  /\ UNCHANGED auditVars
  /\ UNCHANGED <<diskVars, running, appVars, pc, ret, locVars, obsVars>>

\* ------------------------------------------------ the tool
Init ==
  /\ AnyDirectory
  /\ manifest = NoManifest
  /\ locked = {}
  /\ running = FALSE
  /\ snap_en = [p \in Pkgs |-> NoFile]
  /\ snap_dis = [p \in Pkgs |-> NoFile]
  /\ snap_manifest = NoManifest
  /\ InitApp
  /\ InitUpdaterIdle
  /\ InitResolverIdle

Next ==
  \/ LaunchBegin
  \/ LaunchDone
  \/ LaunchPopen
  \/ LaunchFailed
  \/ ApplyStartSession
  \/ ApplyAfterDisable
  \/ ApplyLive
  \/ ApplyDone
  \/ PollSeesRunning
  \/ PollRestores
  \/ PollNothing
  \/ ManualRestore
  \/ RestoreUnreadable
  \/ DisableStep
  \/ DisableTruncate
  \/ DisableWrite
  \/ ReconcileRestoreStep
  \/ ReconcileList
  \/ ReconcileDisableStep
  \/ ReconcileTruncate
  \/ ReconcileWrite
  \/ RestoreStep
  \/ RestoreUnlink
  \/ DialogClosed
  \/ DialogPollSeesRunning
  \/ DialogPollRestores
  \/ DialogPollReturns
  \/ HandlerEnd
  \/ Restart
  \/ HostStart
  \/ HostStop
  \/ ExternalChange
  \/ LockChange

Spec == Init /\ [][Next]_vars

\* ------------------------------------------------ the tool kept running
\* no restart, the directory left alone; the poll timer keeps firing and a
\* handler that started runs to its end
NextLive ==
  \/ LaunchBegin
  \/ LaunchDone
  \/ LaunchPopen
  \/ LaunchFailed
  \/ ApplyStartSession
  \/ ApplyAfterDisable
  \/ ApplyLive
  \/ ApplyDone
  \/ PollSeesRunning
  \/ PollRestores
  \/ PollNothing
  \/ ManualRestore
  \/ DisableStep
  \/ DisableTruncate
  \/ DisableWrite
  \/ ReconcileRestoreStep
  \/ ReconcileList
  \/ ReconcileDisableStep
  \/ ReconcileTruncate
  \/ ReconcileWrite
  \/ RestoreStep
  \/ RestoreUnlink
  \/ HandlerEnd
  \/ HostStart
  \/ HostStop

HandlerProgress ==
  \/ LaunchDone
  \/ LaunchPopen
  \/ ApplyAfterDisable
  \/ ApplyDone
  \/ DisableStep
  \/ DisableTruncate
  \/ DisableWrite
  \/ ReconcileRestoreStep
  \/ ReconcileList
  \/ ReconcileDisableStep
  \/ ReconcileTruncate
  \/ ReconcileWrite
  \/ RestoreStep
  \/ RestoreUnlink
  \/ HandlerEnd

SpecLive ==
  /\ Init
  /\ [][NextLive]_vars
  /\ SF_vars(PollSeesRunning)
  /\ SF_vars(PollRestores)
  /\ WF_vars(HandlerProgress)

\* C3: right after disable_unrelated_vars_by_rename, _apply_keep_set_live or
\* restore_offloaded_vars returns, every entry of the manifest on disk names
\* a package whose file is at the disabled name and not at the canonical name.
C3_ManifestEntriesAreDisabledOnly ==
  (returned \in {"disable", "reconcile", "restore"} /\ manifest.exists) =>
     \A i \in DOMAIN manifest.renamed :
        /\ dis[manifest.renamed[i]] # NoFile
        /\ en[manifest.renamed[i]] = NoFile

\* C4: when the tool process stops, every package the tool renamed to its
\* disabled name and has not renamed back is listed in the manifest on disk.
C4_StoppedToolLeavesRenamesInManifest ==
  returned = "restart" =>
     tool_disabled \subseteq
        (IF manifest.exists THEN Range(manifest.renamed) ELSE {})

\* C5: in an Active session, once VaM.exe has run and stopped, the restore
\* is eventually executed (the poll timer keeps firing).
C5_StopEdgeLeadsToRestore == owed ~> ~owed

\* C6: the cold disable runs only when no manifest exists on disk, so the
\* manifest it writes never replaces an earlier one: no entry of a manifest
\* that was on disk is missing from the manifest the cold disable writes.
C6_ColdDisableNeverReplacesManifest ==
  [][DisableTruncate =>
       (manifest.exists =>
          Range(manifest.renamed) \subseteq Range(renamed))]_vars

\* ------------------------------------------------ resolver claims
\* the asset/plugin naming convention
NamedAssetOrPlugin(v) ==
  \/ Contains(Lower(v), <<"[", "a", "s", "s", "e", "t", "]">>)
  \/ Contains(Lower(v), <<"[", "a", "s", "s", "e", "t", "s", "]">>)
  \/ Contains(Lower(v), <<".", "a", "s", "s", "e", "t">>)
  \/ Contains(Lower(v), <<"[", "p", "l", "u", "g", "i", "n", "]">>)

\* packages reachable from S by following dependency tokens
RECURSIVE ReachableFrom(_)
ReachableFrom(S) ==
  LET more == UNION {UNION {resolve_dependency(var_deps[v][i], all_vars) :
                              i \in DOMAIN var_deps[v]} : v \in S}
  IN IF more \subseteq S THEN S ELSE ReachableFrom(S \cup more)

\* C7: the keep set returned contains every package of the universe whose
\* name matches the asset/plugin naming convention, whatever the seeds.
C7_ProtectedAlwaysKept ==
  rpc = "done" => \A v \in all_vars : NamedAssetOrPlugin(v) => v \in keep

\* a resolution with no seed returned, with an asset package and a plugin
\* package in the universe next to an unprotected one
C7_Witness ==
  /\ rpc = "done"
  /\ run = 1
  /\ scene_vars = {}
  /\ {AssetsVar, PluginVar, PropVar} \subseteq all_vars
  /\ keep = {AssetsVar, PluginVar}

\* C8: resolving with the returned keep set as the seed returns the same
\* keep set.
C8_ResolveIdempotent ==
  (rpc = "done" /\ run = 2) => keep = keep1

\* C9: the keep set is exactly the protected packages, the seeds present in
\* the universe and the packages reachable from those seeds through
\* resolve_dependency; in the universe {Scene.var (deps Hair.latest),
\* Hair.1.var, Hair.2.var, Prop.var} the seed Scene.var gives
\* {Scene.var, Hair.1.var, Hair.2.var}.
C9_KeepSetIsClosure ==
  rpc = "done" =>
    /\ keep = {v \in all_vars : NamedAssetOrPlugin(v)}
                \cup ReachableFrom(scene_vars \cap all_vars)
    /\ ( /\ all_vars = {SceneVar, Hair1Var, Hair2Var, PropVar}
         /\ var_deps[SceneVar] = <<HairLatest>>
         /\ \A v \in all_vars \ {SceneVar} : var_deps[v] = <<>>
         /\ scene_vars = {SceneVar} )
       => keep = {SceneVar, Hair1Var, Hair2Var}

\* the example resolution returned
C9_Witness ==
  /\ rpc = "done"
  /\ run = 1
  /\ all_vars = {SceneVar, Hair1Var, Hair2Var, PropVar}
  /\ var_deps[SceneVar] = <<HairLatest>>
  /\ scene_vars = {SceneVar}
  /\ PropVar \notin keep

\* C10: a token base.latest matches every package of the universe whose
\* name starts with base + ".", and each of them is added to the keep set:
\* once the token is popped, each such package is a match still to be
\* visited or is in keep.
C10_LatestMatchesEveryPrefixedName ==
  (rpc = "seed" /\ EndsWith(dep, DotLatest)) =>
     LET base == SubSeq(dep, 1, Len(dep) - Len(DotLatest)) IN
       \A v \in all_vars : StartsWith(v, base \o Dot) => v \in matched \cup keep

\* ------------------------------------------------ one token resolved
\* _parse_var_base_and_version: (base, version) of a file name; a name of
\* fewer than three dot-separated parts has no version
parse_var_base_and_version(var_filename) ==
  LET name == IF EndsWith(Lower(var_filename), DotVar)
                 THEN SubSeq(var_filename, 1, Len(var_filename) - 4)
                 ELSE var_filename
      dots == {i \in 1..Len(name) : name[i] = "."}
  IN IF Cardinality(dots) + 1 < 3
       THEN <<name, <<>>>>
       ELSE LET last == CHOOSE i \in dots : \A j \in dots : j <= i
            IN <<SubSeq(name, 1, last - 1), SubSeq(name, last + 1, Len(name))>>

HairLong1Var ==
  <<"H", "a", "i", "r", ".", "L", "o", "n", "g", ".", "1", ".", "v", "a", "r">>
HairLongLatest ==
  <<"H", "a", "i", "r", ".", "L", "o", "n", "g", ".", "l", "a", "t", "e", "s", "t">>

\* the files and tokens resolve_dependency is called on
MatchNamePool == ListedNames \cup {HairLong1Var}
MatchTokenPool == TokenPool \cup {HairLongLatest}

\* any universe of listed files and any token
InitMatch ==
  /\ all_vars \in {U \in SUBSET MatchNamePool : Cardinality(U) <= MaxUniverse}
  /\ dep \in MatchTokenPool
  /\ var_deps = [v \in all_vars |-> <<>>]
  /\ scene_vars = {}
  /\ keep = {}
  /\ queue = <<>>
  /\ seeds_todo = {}
  /\ matched = {}
  /\ rpc = "match_start"
  /\ run = 1
  /\ keep1 = {}
  /\ enq_count = [v \in all_vars |-> 0]
  /\ off_top = FALSE
  /\ en = [p \in Pkgs |-> NoFile]
  /\ dis = [p \in Pkgs |-> NoFile]
  /\ manifest = NoManifest
  /\ locked = {}
  /\ running = FALSE
  /\ snap_en = [p \in Pkgs |-> NoFile]
  /\ snap_dis = [p \in Pkgs |-> NoFile]
  /\ snap_manifest = NoManifest
  /\ InitApp
  /\ InitUpdaterIdle

\* resolve_dependency(dep, all_vars) called and its result kept
MatchCall ==
  /\ rpc = "match_start"
  /\ matched' = resolve_dependency(dep, all_vars)
  /\ rpc' = "match_done"
  /\ UNCHANGED <<all_vars, var_deps, scene_vars, keep, queue, seeds_todo, dep,
                 run, keep1, enq_count, off_top>>
  /\ UNCHANGED engVars
  /\ UNCHANGED scanVars
  /\ UNCHANGED updVars

NextMatch == MatchCall

SpecMatch == InitMatch /\ [][NextMatch]_vars

\* ------------------------------------------------ any processing order
\* the tokens of the packages of S, one package after the other
RECURSIVE TokensOf(_)
TokensOf(S) ==
  IF S = {} THEN <<>>
  ELSE LET v == CHOOSE x \in S : TRUE IN var_deps[v] \o TokensOf(S \ {v})

\* the `while queue` loop of compute_keep_set_for_scene_vars as a function of
\* keep and queue: the last token is popped
RECURSIVE StackLoop(_, _)
StackLoop(k, q) ==
  IF q = <<>> THEN k
  ELSE LET new == resolve_dependency(q[Len(q)], all_vars) \ k
       IN StackLoop(k \cup new, SubSeq(q, 1, Len(q) - 1) \o TokensOf(new))

\* compute_keep_set_for_scene_vars(scene_vars) as a function
compute_keep_set_for_scene_vars ==
  StackLoop(Protected(all_vars) \cup (scene_vars \cap all_vars),
            TokensOf(scene_vars \cap all_vars))

\* PopAnyStep that also discards the tokens queued after the one it takes
PopAnyStep_DropsLaterTokens ==
  /\ rpc = "seed"
  /\ seeds_todo = {}
  /\ matched = {}
  /\ \E i \in 1..Len(queue) :
       /\ dep' = queue[i]
       /\ queue' = SubSeq(queue, 1, i - 1)
       /\ matched' = resolve_dependency(queue[i], all_vars)
       /\ off_top' = (off_top \/ i # Len(queue))
  /\ UNCHANGED <<all_vars, var_deps, scene_vars, keep, seeds_todo, rpc, run,
                 keep1, enq_count>>
  /\ UNCHANGED engVars
  /\ UNCHANGED scanVars
  /\ UNCHANGED updVars

\* `while queue: dep = queue.pop(i)` for any position i of the queue; the
\* code takes the last one, a FIFO would take the first
PopAnyStep ==
  /\ rpc = "seed"
  /\ seeds_todo = {}
  /\ matched = {}
  /\ \E i \in 1..Len(queue) :
       /\ dep' = queue[i]
       /\ queue' = SubSeq(queue, 1, i - 1) \o SubSeq(queue, i + 1, Len(queue))
       /\ matched' = resolve_dependency(queue[i], all_vars)
       /\ off_top' = (off_top \/ i # Len(queue))
  /\ UNCHANGED <<all_vars, var_deps, scene_vars, keep, seeds_todo, rpc, run,
                 keep1, enq_count>>
  /\ UNCHANGED engVars
  /\ UNCHANGED scanVars
  /\ UNCHANGED updVars

NextAnyOrder ==
  \/ ResolveBegin
  \/ SeedStep
  \/ PopAnyStep
  \/ MatchStep
  \/ ResolveReturn

SpecAnyOrder == InitResolve /\ [][NextAnyOrder]_vars

\* v is named <base>.<version> + extension, by the parser of the code or by
\* taking the last dot-separated part of the name as the version
IsVariantOf(v, base) ==
  \/ parse_var_base_and_version(v)[1] = base
  \/ /\ EndsWith(Lower(v), DotVar)
     /\ \E k \in 1..(Len(v) - 4) :
          /\ v[k] = "."
          /\ \A j \in (k + 1)..(Len(v) - 4) : v[j] # "."
          /\ SubSeq(v, 1, k - 1) = base

\* C11: every package matched by a token base.latest is a version variant of
\* base: its name without the version and the archive extension is base.
C11_LatestMatchesOnlyVariants ==
  (rpc = "match_done" /\ EndsWith(dep, DotLatest)) =>
     LET base == SubSeq(dep, 1, Len(dep) - Len(DotLatest)) IN
       \A v \in matched : IsVariantOf(v, base)

\* C12: the keep set returned is the same whichever pending token is taken
\* from the queue next: with any order it is the set the stack order gives.
C12_OrderDoesNotMatter ==
  rpc = "done" => keep = compute_keep_set_for_scene_vars

\* a resolution returned at least three packages after taking a token that
\* was not the last of the queue
C12_Witness ==
  /\ rpc = "done"
  /\ off_top
  /\ Cardinality(keep) >= 3

\* what is left to do: seeds to visit, packages not kept, tokens queued,
\* matches to visit; compared in that order
Measure ==
  <<Cardinality(seeds_todo), Cardinality(all_vars \ keep), Len(queue),
    Cardinality(matched)>>

LexLess(a, b) ==
  \E i \in 1..4 : a[i] < b[i] /\ \A j \in 1..(i - 1) : a[j] = b[j]

\* C13: the resolution terminates for every universe and dependency map,
\* cyclic declarations included: every step of the loops keeps keep growing
\* and inside the universe and decreases what is left to do, the tokens of a
\* package are enqueued at most once and only when it is in keep, and a
\* step that has not returned can be followed by another one.
C13_ResolutionTerminates ==
  [][rpc = "seed" =>
          /\ keep \subseteq keep'
          /\ keep' \subseteq all_vars
          /\ \A v \in all_vars :
               /\ enq_count'[v] <= 1
               /\ enq_count'[v] = 1 => v \in keep'
          /\ rpc' = "seed" =>
               /\ LexLess(Measure', Measure)
               /\ (ENABLED NextResolve)']_vars

\* a resolution returned for two packages that declare each other
C13_Witness ==
  /\ rpc = "done"
  /\ run = 1
  /\ {SceneVar, Hair1Var} \subseteq all_vars
  /\ scene_vars = {SceneVar}
  /\ var_deps[SceneVar] = <<Hair1Var>>
  /\ var_deps[Hair1Var] = <<SceneVar>>
  /\ enq_count[Hair1Var] = 1

\* ------------------------------------------------ claims about one pass
\* packages the manifest listed when the first pass started
Tracked == IF snap_manifest.exists THEN Range(snap_manifest.renamed) ELSE {}

\* packages listed in the manifest on disk
Listed == IF manifest.exists THEN Range(manifest.renamed) ELSE {}

\* Enabled only, outside the keep set and, for the reconcile, not tracked
Eligible ==
  {p \in Pkgs : /\ snap_en[p] # NoFile
                /\ snap_dis[p] = NoFile
                /\ p \notin keep_set
                /\ returned = "reconcile" => p \notin Tracked}

\* C14: in a cold disable or a reconcile, a rename that fails does not stop
\* the pass: every eligible package is attempted and those whose rename does
\* not fail are renamed and listed; the manifest written lists no package
\* whose rename failed, and every entry it adds is a package this pass
\* renamed to its disabled name.
C14_FailureDoesNotStopThePass ==
  (pc = "pass1_done" /\ returned \in {"disable", "reconcile"}) =>
     /\ Eligible \subseteq visited
     /\ \A p \in Eligible \ pend_dis :
          en[p] = NoFile /\ dis[p] = snap_en[p] /\ p \in Listed
     /\ pend_dis \cap Listed = {}
     /\ \A p \in Listed \ (IF returned = "reconcile" THEN Tracked ELSE {}) :
          snap_en[p] # NoFile /\ en[p] = NoFile /\ dis[p] = snap_en[p]

\* a pass returned in which the rename of one package failed and a package
\* after it in the listing was renamed
C14_Witness ==
  /\ pc = "pass1_done"
  /\ returned \in {"disable", "reconcile"}
  /\ \E p, q \in Pkgs :
       /\ p < q
       /\ p \in pend_dis
       /\ snap_en[q] # NoFile /\ en[q] = NoFile /\ q \in Listed

\* C15: a package whose rename failed or was skipped in one pass is
\* attempted again by the next pass that still wants it: a failed disable by
\* the next cold disable or reconcile whose keep set excludes the package, a
\* failed or skipped restore by the next restore and by the next reconcile
\* whose keep set contains the package.
C15_RetryAttemptsAgain ==
  pc = "pass2_done" =>
     /\ returned \in {"disable", "reconcile"} =>
          (prev_pend_dis \ keep_set) \subseteq visited
     /\ returned = "reconcile" =>
          (prev_pend_res \cap keep_set) \subseteq visited
     /\ returned = "restore" => prev_pend_res \subseteq visited

C17_ReconcileDropsVanishedEntries ==
  (pc = "pass1_done" /\ returned = "reconcile") =>
     \A p \in Tracked :
        (snap_en[p] = NoFile /\ snap_dis[p] = NoFile) => p \notin Listed

\* C18: no rename of the engine has an existing file as its destination (a
\* name that holds a file keeps it or loses it, it never gets another one),
\* and when a reconcile or a restore returns, a tracked package whose
\* canonical name was occupied has both its files where they were.
C18_OccupiedSlotIsNeverRenamedOnto ==
  [][/\ \A p \in Pkgs :
          /\ en[p] # NoFile => en'[p] \in {en[p], NoFile}
          /\ dis[p] # NoFile => dis'[p] \in {dis[p], NoFile}
     /\ (pc' = "pass1_done" /\ returned' \in {"reconcile", "restore"}) =>
          \A p \in Tracked :
             snap_en[p] # NoFile => en'[p] = snap_en[p] /\ dis'[p] = snap_dis[p]
    ]_vars

\* a restore returned after renaming a package back while another tracked
\* package had a file at both names
C18_Witness ==
  /\ pc = "pass1_done"
  /\ returned = "restore"
  /\ renames >= 1
  /\ \E p \in Tracked :
       /\ snap_en[p] # NoFile /\ snap_dis[p] # NoFile
       /\ en[p] = snap_en[p] /\ dis[p] = snap_dis[p]

\* C19: whatever the tool does (launch, apply, restore, with renames failing
\* or the tool stopped half-way), no package file is deleted, copied or
\* overwritten: in every step that is not a change made by someone else,
\* each package's files stay where they are or one file moves between the
\* canonical name and the disabled name, the other name being free.
C19_FilesOnlyMoveBetweenTheirTwoNames ==
  [][ext_count' = ext_count =>
       \A p \in Pkgs :
          \/ en'[p] = en[p] /\ dis'[p] = dis[p]
          \/ /\ en[p] # NoFile /\ dis[p] = NoFile
             /\ en'[p] = NoFile /\ dis'[p] = en[p]
          \/ /\ dis[p] # NoFile /\ en[p] = NoFile
             /\ dis'[p] = NoFile /\ en'[p] = dis[p]
    ]_vars

\* a reconcile returned that renamed one package back and could not rename
\* another to its disabled name
C19_Witness ==
  /\ returned = "reconcile"
  /\ result[2] >= 1
  /\ pend_dis # {}

\* C20: after a cold disable returns with no rename failure, every package
\* that was Enabled and outside the keep set is Disabled (moved there when
\* its disabled name was free), every package in the keep set and every
\* package that was already Disabled or Missing is unchanged, and the
\* manifest on disk lists exactly the packages this call renamed, once each.
C20_ColdDisablePostcondition ==
  (pc = "pass1_done" /\ returned = "disable" /\ pend_dis = {}) =>
     /\ \A p \in Pkgs :
          (snap_en[p] # NoFile /\ p \notin keep_set) =>
             /\ dis[p] # NoFile
             /\ snap_dis[p] = NoFile => en[p] = NoFile /\ dis[p] = snap_en[p]
     /\ \A p \in Pkgs :
          (p \in keep_set \/ snap_dis[p] # NoFile \/ snap_en[p] = NoFile) =>
             en[p] = snap_en[p] /\ dis[p] = snap_dis[p]
     /\ manifest.exists
     /\ Range(manifest.renamed) = {p \in Pkgs : en[p] # snap_en[p]}
     /\ Len(manifest.renamed) = Cardinality(Range(manifest.renamed))

\* a cold disable returned without failure after renaming one package,
\* keeping another and replacing an earlier manifest
C20_Witness ==
  /\ pc = "pass1_done"
  /\ returned = "disable"
  /\ pend_dis = {}
  /\ snap_manifest.exists
  /\ \E p, q \in Pkgs :
       /\ snap_en[p] # NoFile /\ en[p] = NoFile
       /\ q \in keep_set /\ en[q] # NoFile
       /\ q \in Tracked

\* the package had a file at exactly one of its two names when the pass began
OneForm(p) == (snap_en[p] = NoFile) # (snap_dis[p] = NoFile)

\* C21: after a reconcile returns and no rename could fail, the disk matches
\* the target for every package that had a file at exactly one of its names:
\* a tracked package of the keep set is Enabled and is no longer in the
\* manifest, and no package outside the keep set is Enabled.
C21_ReconcileReachesTheTarget ==
  (pc = "pass1_done" /\ returned = "reconcile" /\ locked = {}) =>
     /\ \A p \in Tracked \cap keep_set :
          OneForm(p) => en[p] # NoFile /\ p \notin Listed
     /\ \A p \in Pkgs \ keep_set :
          OneForm(p) => en[p] = NoFile

\* C22: at whatever point the tool process stops, the manifest file on disk
\* is a complete document (the previous one or the new one), never an empty
\* or partly written file.
C22_ManifestIsNeverPartlyWritten ==
  returned = "restart" => manifest # Torn

\* positions of an engine function that has started and has not yet finished
\* its renames and its manifest write (or deletion)
Busy == {"dis_loop", "dis_write", "rec_restore", "rec_disable", "rec_write",
         "res_loop"}

\* this step enters an engine function
Begins ==
  \/ pc' = "dis_loop" /\ pc # "dis_loop"
  \/ pc' = "rec_restore" /\ pc # "rec_restore"
  \/ pc' = "res_loop" /\ pc # "res_loop"

C30_ManifestExistsIffSessionActive ==
  (pc = "idle" /\ manifest # Torn) => (manifest.exists <=> lean_active)

\* ------------------------------------------------ scan and cache
HairLong2Var ==
  <<"H", "a", "i", "r", ".", "L", "o", "n", "g", ".", "2", ".", "v", "a", "r">>

\* the package files a folder may hold: two variants of a base with a dot in
\* it, two of a base without
ScanPool == {HairLong1Var, HairLong2Var, Hair1Var, Hair2Var}

\* highest signature a file gets; changes others make to folder and cache
\* once a first scan has written the cache (a folder changed before that is
\* one of the folders InitScan starts from)
MaxSig == 2
MaxChanges == 1

\* "version" written to the cache and required of it
CacheVersion == 13

\* the dependencies meta.json of each package declares
Declared(n) ==
  IF n = HairLong1Var THEN <<Hair1Var>>
  ELSE IF n = HairLong2Var THEN <<Hair2Var>>
  ELSE <<>>

\* condition of an archive: sound; not a zip file; no meta.json in it;
\* meta.json that is not JSON; meta.json with bytes that are not UTF-8 inside
\* a string, JSON again once `decode(errors="ignore")` dropped them
Kinds == {"good", "badzip", "nometa", "malformed", "nonutf8"}

\* scan_var_meta_only: ZipFile or z.read("meta.json") raising leaves `out`
\* empty; _read_meta_json gives {} for a document json.loads rejects and the
\* scenes are then taken from z.namelist()
scan_var_meta_only(n) ==
  IF kind[n] \in {"badzip", "nometa"}
    THEN [dependencies |-> <<>>, scenes |-> FALSE]
    ELSE [dependencies |-> IF kind[n] = "malformed" THEN <<>> ELSE Declared(n),
          scenes |-> n \in scene]

\* characters in code point order
OrdSeq ==
  <<".", "0", "1", "2", "3", "4", "5", "6", "7", "8", "9",
    "A", "B", "C", "D", "E", "F", "G", "H", "I", "J", "K", "L", "M",
    "N", "O", "P", "Q", "R", "S", "T", "U", "V", "W", "X", "Y", "Z",
    "[", "]",
    "a", "b", "c", "d", "e", "f", "g", "h", "i", "j", "k", "l", "m",
    "n", "o", "p", "q", "r", "s", "t", "u", "v", "w", "x", "y", "z">>

Ord(c) == CHOOSE i \in 1..Len(OrdSeq) : OrdSeq[i] = c

\* a < b for Python strings
StrLess(a, b) ==
  \E k \in 1..(Len(a) + 1) :
     /\ k <= Len(b)
     /\ \A j \in 1..(k - 1) : a[j] = b[j]
     /\ k = Len(a) + 1 \/ Ord(a[k]) < Ord(b[k])

Digits == {"0", "1", "2", "3", "4", "5", "6", "7", "8", "9"}

\* int(v), and -1 where it raises
RECURSIVE IntOf(_)
IntOf(v) ==
  IF v = <<>> \/ \E i \in 1..Len(v) : v[i] \notin Digits THEN 0 - 1
  ELSE IF Len(v) = 1 THEN Ord(v[1]) - 2
  ELSE 10 * IntOf(SubSeq(v, 1, Len(v) - 1)) + Ord(v[Len(v)]) - 2

\* _version_key(a) < _version_key(b): (vnum, v, nm) compared as tuples
VersionKeyLess(a, b) ==
  LET va == parse_var_base_and_version(a)[2]
      vb == parse_var_base_and_version(b)[2]
  IN \/ IntOf(va) < IntOf(vb)
     \/ IntOf(va) = IntOf(vb) /\ StrLess(va, vb)
     \/ IntOf(va) = IntOf(vb) /\ va = vb /\ StrLess(a, b)

\* AnalyzeWorker.run: the cached record of a file is taken when its "sig" is
\* the file's signature
CacheHit(old, n) == n \in DOMAIN old.vars /\ old.vars[n].sig = sig[n]

\* all_infos: the cached record or the record made from a scan of the archive
all_infos(old) ==
  [n \in present |->
     IF CacheHit(old, n) THEN old.vars[n]
     ELSE [sig |-> sig[n],
           scenes |-> scan_var_meta_only(n).scenes,
           dependencies |-> scan_var_meta_only(n).dependencies]]

\* the highest version, with scenes or without
Chosen_HighestVersion(names, infos) ==
  CHOOSE n \in names : \A m \in names \ {n} : VersionKeyLess(m, n)

\* the one name chosen among those of a base: the highest version that
\* contains scenes, the highest version when none does
Chosen(names, infos) ==
  LET with_scenes == {n \in names : infos[n].scenes}
      from == IF with_scenes # {} THEN with_scenes ELSE names
  IN CHOOSE n \in from : \A m \in from \ {n} : VersionKeyLess(m, n)

selected_names(infos) ==
  {Chosen({m \in present : parse_var_base_and_version(m)[1] =
                           parse_var_base_and_version(n)[1]}, infos) :
     n \in present}

\* cache_obj built by AnalyzeWorker.run from the cache `old`
AnalyzeWorker_run(old) ==
  LET infos == all_infos(old) IN
    [file |-> TRUE,
     version |-> CacheVersion,
     addon |-> addon,
     vars |-> [n \in selected_names(infos) |-> infos[n]],
     all_var_sigs |-> [n \in present |-> sig[n]],
     all_deps |-> [n \in present |-> infos[n].dependencies],
     loose |-> loose]

\* _scene_entries_from_cache / the scene_entries a scan returns: one entry
\* for each scene of each package of "vars"
scene_entries_from_cache(c) == {n \in DOMAIN c.vars : c.vars[n].scenes}

can_use_cache_for_current_folder(c) ==
  c.file /\ c.version = CacheVersion /\ c.addon = addon

\* a change check that does not compare the signatures of the packages
needs_rescan_IgnoresSignatures(c) ==
  IF c.addon # addon THEN TRUE
  ELSE IF DOMAIN c.all_var_sigs # present THEN TRUE
  ELSE c.loose # loose

\* ChangeCheckWorker.run
needs_rescan(c) ==
  IF c.addon # addon THEN TRUE
  ELSE IF DOMAIN c.all_var_sigs # present THEN TRUE
  ELSE IF \E n \in present : c.all_var_sigs[n] # sig[n] THEN TRUE
  ELSE c.loose # loose

\* _deps_for_var_name
deps_for_var_name(n) ==
  IF n \in DOMAIN var_deps_cache THEN var_deps_cache[n]
  ELSE scan_var_meta_only(n).dependencies

\* the tool starts: auto_open_last_folder_on_startup
Startup ==
  /\ spc = "idle" /\ rpc = "idle"
  /\ IF can_use_cache_for_current_folder(cache)
       THEN /\ scene_entries' = scene_entries_from_cache(cache)
            /\ var_deps_cache' = cache.all_deps
            /\ spc' = "check"
       ELSE /\ scene_entries' = {}
            /\ var_deps_cache' = <<>>
            /\ spc' = "scan"
  /\ needs' = "none"
  /\ opened' = {}
  /\ UNCHANGED <<present, sig, kind, scene, loose, addon, cache, changes>>
  /\ UNCHANGED engVars
  /\ UNCHANGED updVars
  /\ UNCHANGED resVars

\* refresh_clicked
Refresh ==
  /\ spc = "idle" /\ rpc = "idle"
  /\ IF can_use_cache_for_current_folder(cache)
       THEN /\ scene_entries' = IF scene_entries = {}
                                  THEN scene_entries_from_cache(cache)
                                  ELSE scene_entries
            /\ var_deps_cache' = cache.all_deps
       ELSE UNCHANGED <<scene_entries, var_deps_cache>>
  /\ spc' = "check"
  /\ needs' = "none"
  /\ UNCHANGED <<present, sig, kind, scene, loose, addon, cache, opened,
                 changes>>
  /\ UNCHANGED engVars
  /\ UNCHANGED updVars
  /\ UNCHANGED resVars

\* ChangeCheckWorker.run and _on_change_check_done
ChangeCheckDone ==
  /\ spc = "check"
  /\ needs' = IF needs_rescan(cache) THEN "yes" ELSE "no"
  /\ spc' = IF needs_rescan(cache) THEN "scan" ELSE "idle"
  /\ UNCHANGED <<present, sig, kind, scene, loose, addon, cache,
                 scene_entries, var_deps_cache, opened, changes>>
  /\ UNCHANGED engVars
  /\ UNCHANGED updVars
  /\ UNCHANGED resVars

\* AnalyzeWorker.run and analysis_done
ScanDone ==
  /\ spc = "scan"
  /\ cache' = AnalyzeWorker_run(cache)
  /\ scene_entries' = scene_entries_from_cache(cache')
  /\ var_deps_cache' = cache'.all_deps
  /\ opened' = {n \in present : ~CacheHit(cache, n)}
  /\ spc' = "idle"
  /\ needs' = "none"
  /\ UNCHANGED <<present, sig, kind, scene, loose, addon, changes>>
  /\ UNCHANGED engVars
  /\ UNCHANGED updVars
  /\ UNCHANGED resVars

\* set_current_vam_dir: the folder is selected under another path
SelectFolder ==
  /\ spc = "idle" /\ rpc = "idle"
  /\ cache.file
  /\ changes < MaxChanges
  /\ changes' = changes + 1
  /\ addon' = 3 - addon
  /\ scene_entries' = {}
  /\ var_deps_cache' = <<>>
  /\ spc' = "scan"
  /\ needs' = "none"
  /\ UNCHANGED <<present, sig, kind, scene, loose, cache, opened>>
  /\ UNCHANGED engVars
  /\ UNCHANGED updVars
  /\ UNCHANGED resVars

\* _scene_vars_for_launch with no scene selected, then
\* compute_keep_set_for_scene_vars
LaunchNoSelection ==
  /\ spc = "idle"
  /\ scene_entries # {}
  /\ rpc = "idle"
  /\ all_vars' = present
  /\ var_deps' = [n \in present |-> deps_for_var_name(n)]
  /\ scene_vars' = scene_entries
  /\ keep' = compute_keep_set_for_scene_vars'
  /\ rpc' = "done"
  /\ UNCHANGED <<queue, seeds_todo, dep, matched, run, keep1, enq_count,
                 off_top>>
  /\ UNCHANGED scanVars
  /\ UNCHANGED updVars
  /\ UNCHANGED engVars

\* the keep set was used
LaunchReturns ==
  /\ rpc = "done"
  /\ rpc' = "idle"
  /\ all_vars' = {}
  /\ var_deps' = <<>>
  /\ scene_vars' = {}
  /\ keep' = {}
  /\ UNCHANGED <<queue, seeds_todo, dep, matched, run, keep1, enq_count,
                 off_top>>
  /\ UNCHANGED scanVars
  /\ UNCHANGED updVars
  /\ UNCHANGED engVars

\* a package file is written again: another size or modification time
Touch ==
  /\ spc = "idle" /\ rpc = "idle"
  /\ cache.file
  /\ changes < MaxChanges
  /\ changes' = changes + 1
  /\ \E n \in present :
       /\ sig[n] < MaxSig
       /\ sig' = [sig EXCEPT ![n] = @ + 1]
  /\ needs' = "none"
  /\ UNCHANGED <<present, kind, scene, loose, addon, cache, scene_entries,
                 var_deps_cache, spc, opened>>
  /\ UNCHANGED engVars
  /\ UNCHANGED updVars
  /\ UNCHANGED resVars

\* a package file is added to the folder or removed from it
AddOrRemove ==
  /\ spc = "idle" /\ rpc = "idle"
  /\ cache.file
  /\ changes < MaxChanges
  /\ changes' = changes + 1
  /\ \E n \in ScanPool :
       /\ present' = IF n \in present THEN present \ {n} ELSE present \cup {n}
       /\ scene' = scene \ {n}
  /\ needs' = "none"
  /\ UNCHANGED <<sig, kind, loose, addon, cache, scene_entries,
                 var_deps_cache, spc, opened>>
  /\ UNCHANGED engVars
  /\ UNCHANGED updVars
  /\ UNCHANGED resVars

\* the loose scene in Saves/scene is saved, added or deleted
LooseChange ==
  /\ spc = "idle" /\ rpc = "idle"
  /\ cache.file
  /\ changes < MaxChanges
  /\ changes' = changes + 1
  /\ loose < MaxSig
  /\ loose' = loose + 1
  /\ needs' = "none"
  /\ UNCHANGED <<present, sig, kind, scene, addon, cache, scene_entries,
                 var_deps_cache, spc, opened>>
  /\ UNCHANGED engVars
  /\ UNCHANGED updVars
  /\ UNCHANGED resVars

\* the cache file on disk was written by a release with another "version"
OtherRelease ==
  /\ spc = "idle" /\ rpc = "idle"
  /\ cache.file
  /\ changes < MaxChanges
  /\ changes' = changes + 1
  /\ cache.version = CacheVersion
  /\ cache' = [cache EXCEPT !.version = CacheVersion - 1]
  /\ needs' = "none"
  /\ UNCHANGED <<present, sig, kind, scene, loose, addon, scene_entries,
                 var_deps_cache, spc, opened>>
  /\ UNCHANGED engVars
  /\ UNCHANGED updVars
  /\ UNCHANGED resVars

\* any folder of sound archives, or Hair.1.var in any condition (what it
\* holds besides is of no account when it cannot be read) with or without
\* Hair.2.var; no cache yet
InitScan ==
  /\ present \in SUBSET ScanPool
  /\ sig = [n \in ScanPool |-> 1]
  /\ scene \in SUBSET present
  /\ \E k \in Kinds :
       /\ k # "good" => Hair1Var \in present /\ present \subseteq {Hair1Var, Hair2Var}
       /\ k \in {"badzip", "nometa"} => Hair1Var \notin scene
       /\ kind = [n \in ScanPool |-> IF n = Hair1Var THEN k ELSE "good"]
  /\ loose = 0
  /\ addon = 1
  /\ cache = NoCache
  /\ scene_entries = {}
  /\ var_deps_cache = <<>>
  /\ spc = "idle"
  /\ needs = "none"
  /\ opened = {}
  /\ changes = 0
  /\ en = [p \in Pkgs |-> NoFile]
  /\ dis = [p \in Pkgs |-> NoFile]
  /\ manifest = NoManifest
  /\ locked = {}
  /\ running = FALSE
  /\ snap_en = [p \in Pkgs |-> NoFile]
  /\ snap_dis = [p \in Pkgs |-> NoFile]
  /\ snap_manifest = NoManifest
  /\ InitEngineIdle
  /\ InitUpdaterIdle
  /\ InitResolverIdle

NextScan ==
  \/ Startup
  \/ Refresh
  \/ ChangeCheckDone
  \/ ScanDone
  \/ SelectFolder
  \/ LaunchNoSelection
  \/ LaunchReturns
  \/ Touch
  \/ AddOrRemove
  \/ LooseChange
  \/ OtherRelease

SpecScan == InitScan /\ [][NextScan]_vars

\* ------------------------------------------------ claims on scan and cache
\* the cache differs from the folder in one of the ways a change check looks
\* for
CacheDiffers ==
  \/ ~cache.file
  \/ cache.addon # addon
  \/ DOMAIN cache.all_var_sigs # present
  \/ \E n \in present \cap DOMAIN cache.all_var_sigs :
        cache.all_var_sigs[n] # sig[n]
  \/ cache.loose # loose

\* C24: the change check answers that a rescan is needed if and only if
\* there is no cache document, or its addon directory is not the current
\* one, or the package names on disk are not the cached names, or the
\* signature of some package is not its cached signature, or the loose
\* scenes differ.
C24_NeedsRescanIffSomethingDiffers ==
  needs # "none" => (needs = "yes" <=> CacheDiffers)

\* a change check answered yes for no reason but the signature of an archive
C24_Witness ==
  /\ needs = "yes"
  /\ cache.file
  /\ cache.addon = addon
  /\ DOMAIN cache.all_var_sigs = present
  /\ cache.loose = loose

\* C25: with a cache on disk whose version is not the current one, a change
\* check (startup and Refresh) answers that a rescan is needed, and a scan
\* opens every archive, reusing no cached record.
C25_OtherVersionForcesFullRescan ==
  [][/\ (ChangeCheckDone /\ cache.file /\ cache.version # CacheVersion)
          => needs' = "yes"
     /\ (ScanDone /\ cache.file /\ cache.version # CacheVersion)
          => opened' = present]_vars

\* C26: a scan that starts from the cache the previous scan of this folder
\* wrote opens no archive whose signature is the one that scan recorded, be
\* it an older variant or a package without scenes.
C26_UnchangedArchivesAreNotOpened ==
  [][(ScanDone /\ cache.file /\ cache.version = CacheVersion
               /\ cache.addon = addon)
       => \A n \in present \cap DOMAIN cache.all_var_sigs :
             cache.all_var_sigs[n] = sig[n] => n \notin opened']_vars

\* <base>.<version> + extension read as the data model puts it: the version
\* is the last dot-separated part of the name, whatever the base
NameBaseVersion(v) ==
  LET name == IF EndsWith(Lower(v), DotVar)
                 THEN SubSeq(v, 1, Len(v) - 4)
                 ELSE v
      dots == {i \in 1..Len(name) : name[i] = "."}
  IN IF dots = {}
       THEN <<name, <<>>>>
       ELSE LET last == CHOOSE i \in dots : \A j \in dots : j <= i
            IN <<SubSeq(name, 1, last - 1), SubSeq(name, last + 1, Len(name))>>

\* (integer version, version string, file name) of a is below that of b
NameKeyLess(a, b) ==
  LET va == NameBaseVersion(a)[2]
      vb == NameBaseVersion(b)[2]
  IN \/ IntOf(va) < IntOf(vb)
     \/ IntOf(va) = IntOf(vb) /\ StrLess(va, vb)
     \/ IntOf(va) = IntOf(vb) /\ va = vb /\ StrLess(a, b)

\* C27 as stated: of the packages on disk that share a base, the scan selects
\* exactly the one of the highest version, for bases with or without dots and
\* whether or not that one contains scenes.
C27_HighestVersionOfEachBase ==
  [][ScanDone =>
       DOMAIN cache'.vars =
         {n \in present :
            \A m \in present \ {n} :
               NameBaseVersion(m)[1] = NameBaseVersion(n)[1] => NameKeyLess(m, n)}]_vars

\* n is the highest version of its base among the variants that contain
\* scenes, or among all of them when none contains a scene; base and version
\* as _parse_var_base_and_version gives them
LatestWithScenes(n, infos) ==
  LET variants == {m \in present : parse_var_base_and_version(m)[1] =
                                   parse_var_base_and_version(n)[1]}
      any == \E m \in variants : infos[m].scenes
  IN /\ any => infos[n].scenes
     /\ \A m \in variants \ {n} :
           (any => infos[m].scenes) => VersionKeyLess(m, n)

\* C27: of the packages on disk that share a base (the name without
\* extension and last part when it has three parts or more, the whole name
\* otherwise), the scan selects exactly one: the highest version among those
\* that contain scenes, and the highest version when none contains a scene.
C27_HighestVersionWithScenes ==
  [][ScanDone =>
       DOMAIN cache'.vars =
         {n \in present : LatestWithScenes(n, all_infos(cache))}]_vars

\* a scan selected version 1 of Hair.Long, which holds a scene, and not
\* version 2, which holds none
C27_Witness ==
  /\ cache.file
  /\ HairLong2Var \in DOMAIN cache.all_var_sigs
  /\ HairLong1Var \in DOMAIN cache.vars
  /\ HairLong2Var \notin DOMAIN cache.vars

\* C28: the record of an archive that cannot be read, or whose meta.json is
\* missing, malformed or not UTF-8, has no dependency and no scene.
C28_UnreadableGivesEmptyRecord ==
  [][ScanDone =>
       \A n \in present :
          (kind[n] # "good" /\ n \in opened') =>
             /\ cache'.all_deps[n] = <<>>
             /\ n \notin scene_entries']_vars

\* C29: a launch with no scene selected, the catalog being that of the
\* folder as it is, keeps every package that contains a scene and every
\* package a dependency of such a package resolves to.
C29_NoSelectionKeepsAllSceneUsers ==
  (rpc = "done" /\ spc = "idle" /\ ~CacheDiffers) =>
     \A n \in present :
        scan_var_meta_only(n).scenes =>
           /\ n \in keep
           /\ \A i \in 1..Len(scan_var_meta_only(n).dependencies) :
                 resolve_dependency(scan_var_meta_only(n).dependencies[i],
                                    present) \subseteq keep

\* ------------------------------------------------ claims on the session
\* C32: the engine renames a file from the disabled name to the canonical
\* name only for a package that the manifest on disk lists; a disabled
\* package that is not listed stays disabled, in the keep set or not.
C32_OnlyListedPackagesAreReEnabled ==
  [][\A p \in Pkgs :
        (en[p] = NoFile /\ en'[p] # NoFile) =>
           manifest.exists /\ p \in Range(manifest.renamed)]_vars

\* a reconcile returned that renamed a listed package back and left
\* disabled a package of its keep set that the manifest did not list
C32_Witness ==
  /\ pc = "pass1_done"
  /\ returned = "reconcile"
  /\ \E p, q \in Pkgs :
       /\ p \in keep_set
       /\ snap_en[p] = NoFile /\ snap_dis[p] # NoFile
       /\ p \notin Range(snap_manifest.renamed)
       /\ en[p] = NoFile /\ dis[p] # NoFile
       /\ snap_en[q] = NoFile /\ en[q] # NoFile

\* ------------------------------------------------ Apply Selection Now
\* apply_selection_now_clicked on any directory, manifest and set of locked
\* files, VaM running or not
InitApply ==
  /\ AnyDirectory
  /\ manifest \in {NoManifest}
       \cup {[exists |-> TRUE, renamed |-> s] : s \in SeqsUpTo(Pkgs, MaxManifest)}
  /\ locked \in {L \in SUBSET Pkgs : Cardinality(L) <= MaxLocked}
  /\ running \in BOOLEAN
  /\ snap_en = en
  /\ snap_dis = dis
  /\ snap_manifest = manifest
  /\ InitApp
  /\ InitUpdaterIdle
  /\ InitResolverIdle

NextApply ==
  \/ ApplyStartSession
  \/ ApplyAfterDisable
  \/ ApplyLive
  \/ ApplyDone
  \/ DisableStep
  \/ DisableTruncate
  \/ DisableWrite
  \/ ReconcileRestoreStep
  \/ ReconcileList
  \/ ReconcileDisableStep
  \/ ReconcileTruncate
  \/ ReconcileWrite
  \/ DialogClosed

SpecApply == InitApply /\ [][NextApply]_vars

\* C34: the pair that the first Apply Selection Now is about to report
\* (_apply_keep_set_live has returned, the message is not yet shown) is the
\* number of packages the action renamed to the disabled name and the number
\* it renamed back to the canonical name, the cold disable that starts a
\* session included.
C34_ApplyReportsItsRenames ==
  (pc = "apply_done" /\ ~lean_active) =>
     result = <<Cardinality({p \in Pkgs : snap_en[p] # NoFile /\ en[p] = NoFile}),
                Cardinality({p \in Pkgs : snap_en[p] = NoFile /\ en[p] # NoFile})>>

\* C35: the poll handler calls restore_offloaded_vars only on a stop edge:
\* the session flag is set, VaM.exe was seen running by an earlier poll or
\* by Apply, it is found not running now, and it did stop while the session
\* was active and no restore has run since.
C35_PollRestoresOnlyOnStopEdge ==
  [][(PollRestores \/ DialogPollRestores) =>
        (lean_active /\ vam_seen_running /\ ~running /\ owed)]_vars

\* the restore called by the poll handler (or by the button) is under way
\* after VaM.exe was seen running and stopped
C35_Witness ==
  /\ pc = "res_loop"
  /\ ret = "handler_end"
  /\ poll_timer /\ lean_active /\ vam_seen_running /\ ~running /\ owed
  /\ tool_items # <<>>

\* ------------------------------------------------ the updater
\* range(40) of the loop that renames the executable to its backup
BackupAttempts == 40

\* range(40) of the loop that copies the new executable into place
CopyAttempts == 40

NoExe == "none"

\* what a file-system call of main touches in the rest of the tool: nothing
UpdFrame ==
  /\ UNCHANGED engVars
  /\ UNCHANGED resVars
  /\ UNCHANGED scanVars

\* main returns
UpdReturn(code) ==
  /\ upc' = "exit"
  /\ exit_code' = code

\* len(sys.argv) < 3: usage, return 2
UpdCheckArgs ==
  /\ upc = "args"
  /\ IF argc < 3 THEN UpdReturn(2)
                 ELSE upc' = "check_current" /\ UNCHANGED exit_code
  /\ UNCHANGED <<argc, current_exe, backup, new_exe, backup_tries,
                 copy_tries, snap_current_exe>>
  /\ UpdFrame

\* current_exe.exists()
UpdCheckCurrent ==
  /\ upc = "check_current"
  /\ IF current_exe = NoExe THEN UpdReturn(3)
                            ELSE upc' = "check_new" /\ UNCHANGED exit_code
  /\ UNCHANGED <<argc, current_exe, backup, new_exe, backup_tries,
                 copy_tries, snap_current_exe>>
  /\ UpdFrame

\* new_exe.exists()
UpdCheckNew ==
  /\ upc = "check_new"
  /\ IF new_exe = NoExe THEN UpdReturn(4)
                        ELSE upc' = "wait" /\ UNCHANGED exit_code
  /\ UNCHANGED <<argc, current_exe, backup, new_exe, backup_tries,
                 copy_tries, snap_current_exe>>
  /\ UpdFrame

\* _wait_for_process_release: the file opens for append, or the time runs out
UpdWait ==
  /\ upc = "wait"
  /\ \/ upc' = "clear_backup" /\ UNCHANGED exit_code
     \/ UpdReturn(5)
  /\ UNCHANGED <<argc, current_exe, backup, new_exe, backup_tries,
                 copy_tries, snap_current_exe>>
  /\ UpdFrame

\* if backup.exists(): backup.unlink(), a failure is passed over
UpdClearBackup ==
  /\ upc = "clear_backup"
  /\ backup' \in {backup, NoExe}
  /\ upc' = "backup_unlink"
  /\ UNCHANGED <<argc, current_exe, new_exe, backup_tries, copy_tries,
                 exit_code, snap_current_exe>>
  /\ UpdFrame

\* _safe_rename(current_exe, backup), its first half:
\* if dst.exists(): dst.unlink(), a failure is passed over
UpdBackupUnlink ==
  /\ upc = "backup_unlink"
  /\ backup' \in {backup, NoExe}
  /\ upc' = "backup_rename"
  /\ UNCHANGED <<argc, current_exe, new_exe, backup_tries, copy_tries,
                 exit_code, snap_current_exe>>
  /\ UpdFrame

\* _safe_rename(current_exe, backup), src.rename(dst): the file moves, taking
\* the place of what is at dst, and the loop is left
UpdBackupRename ==
  /\ upc = "backup_rename"
  /\ backup' = current_exe
  /\ current_exe' = NoExe
  /\ upc' = "copy"
  /\ UNCHANGED <<argc, new_exe, backup_tries, copy_tries, exit_code,
                 snap_current_exe>>
  /\ UpdFrame

\* src.rename(dst) raises: the next pass of the loop
UpdBackupRenameFails ==
  /\ upc = "backup_rename"
  /\ backup_tries + 1 < BackupAttempts
  /\ backup_tries' = backup_tries + 1
  /\ upc' = "backup_unlink"
  /\ UNCHANGED <<argc, current_exe, backup, new_exe, copy_tries, exit_code,
                 snap_current_exe>>
  /\ UpdFrame

\* the loop that continues to the copy when its last pass has failed
UpdBackupGivesUp_GoesOn ==
  /\ upc = "backup_rename"
  /\ backup_tries + 1 = BackupAttempts
  /\ backup_tries' = backup_tries + 1
  /\ upc' = "copy"
  /\ UNCHANGED <<argc, current_exe, backup, new_exe, copy_tries, exit_code,
                 snap_current_exe>>
  /\ UpdFrame

\* src.rename(dst) raises in the last pass: the loop's else, return 6
UpdBackupGivesUp ==
  /\ upc = "backup_rename"
  /\ backup_tries + 1 = BackupAttempts
  /\ backup_tries' = backup_tries + 1
  /\ UpdReturn(6)
  /\ UNCHANGED <<argc, current_exe, backup, new_exe, copy_tries,
                 snap_current_exe>>
  /\ UpdFrame

\* shutil.copy2(new_exe, current_exe) completes and the loop is left
UpdCopy ==
  /\ upc = "copy"
  /\ current_exe' = new_exe
  /\ upc' = "cleanup"
  /\ UNCHANGED <<argc, backup, new_exe, backup_tries, copy_tries, exit_code,
                 snap_current_exe>>
  /\ UpdFrame

\* shutil.copy2 raises, before it wrote to current_exe or after it began;
\* after the last pass the loop's else starts the rollback
UpdCopyFails ==
  /\ upc = "copy"
  /\ current_exe' \in {current_exe, "partial"}
  /\ copy_tries' = copy_tries + 1
  /\ upc' = IF copy_tries + 1 = CopyAttempts THEN "rollback_unlink" ELSE "copy"
  /\ UNCHANGED <<argc, backup, new_exe, backup_tries, exit_code,
                 snap_current_exe>>
  /\ UpdFrame

\* rollback: if current_exe.exists(): current_exe.unlink(), a failure is
\* passed over
UpdRollbackUnlink ==
  /\ upc = "rollback_unlink"
  /\ current_exe' \in {current_exe, NoExe}
  /\ upc' = "rollback_safe_unlink"
  /\ UNCHANGED <<argc, backup, new_exe, backup_tries, copy_tries, exit_code,
                 snap_current_exe>>
  /\ UpdFrame

\* rollback: if backup.exists(): _safe_rename(backup, current_exe), its first
\* half; without a backup return 7
UpdRollbackSafeUnlink ==
  /\ upc = "rollback_safe_unlink"
  /\ IF backup = NoExe
       THEN UpdReturn(7) /\ UNCHANGED current_exe
       ELSE /\ current_exe' \in {current_exe, NoExe}
            /\ upc' = "rollback_rename"
            /\ UNCHANGED exit_code
  /\ UNCHANGED <<argc, backup, new_exe, backup_tries, copy_tries,
                 snap_current_exe>>
  /\ UpdFrame

\* rollback: src.rename(dst) moves the backup to the current path, or raises
\* and the failure is passed over; return 7
UpdRollbackRename ==
  /\ upc = "rollback_rename"
  /\ \/ current_exe' = backup /\ backup' = NoExe
     \/ UNCHANGED <<current_exe, backup>>
  /\ UpdReturn(7)
  /\ UNCHANGED <<argc, new_exe, backup_tries, copy_tries, snap_current_exe>>
  /\ UpdFrame

\* new_exe.unlink(), a failure is passed over
UpdCleanup ==
  /\ upc = "cleanup"
  /\ new_exe' \in {new_exe, NoExe}
  /\ upc' = "relaunch"
  /\ UNCHANGED <<argc, current_exe, backup, backup_tries, copy_tries,
                 exit_code, snap_current_exe>>
  /\ UpdFrame

\* subprocess.Popen: return 0, or it raises: return 9
UpdRelaunch ==
  /\ upc = "relaunch"
  /\ \/ UpdReturn(0)
     \/ UpdReturn(9)
  /\ UNCHANGED <<argc, current_exe, backup, new_exe, backup_tries,
                 copy_tries, snap_current_exe>>
  /\ UpdFrame

\* updater.exe is started with any arguments, the two paths naming a file or
\* not, a backup of an earlier update lying there or not
InitUpdater ==
  /\ argc \in 1..3
  /\ current_exe \in {NoExe, "old"}
  /\ backup \in {NoExe, "stale"}
  /\ new_exe \in {NoExe, "new"}
  /\ upc = "args"
  /\ backup_tries = 0
  /\ copy_tries = 0
  /\ exit_code = 0 - 1
  /\ snap_current_exe = current_exe
  /\ en = [p \in Pkgs |-> NoFile]
  /\ dis = [p \in Pkgs |-> NoFile]
  /\ manifest = NoManifest
  /\ locked = {}
  /\ running = FALSE
  /\ snap_en = en
  /\ snap_dis = dis
  /\ snap_manifest = NoManifest
  /\ InitApp
  /\ InitResolverIdle

NextUpdater ==
  \/ UpdCheckArgs
  \/ UpdCheckCurrent
  \/ UpdCheckNew
  \/ UpdWait
  \/ UpdClearBackup
  \/ UpdBackupUnlink
  \/ UpdBackupRename
  \/ UpdBackupRenameFails
  \/ UpdBackupGivesUp
  \/ UpdCopy
  \/ UpdCopyFails
  \/ UpdRollbackUnlink
  \/ UpdRollbackSafeUnlink
  \/ UpdRollbackRename
  \/ UpdCleanup
  \/ UpdRelaunch

SpecUpdater == InitUpdater /\ [][NextUpdater]_vars

\* C36: the updater never loses the old executable: once main has found it at
\* the current path, its content is at the current path or at the backup path
\* in every state, whichever calls fail; and when every pass of the copy loop
\* has failed main returns 7 with the backup moved back to the current path,
\* or left where it is when that rename failed.
C36_OldExecutableIsNeverLost ==
  /\ snap_current_exe = "old" => (current_exe = "old" \/ backup = "old")
  /\ (upc = "exit" /\ copy_tries = CopyAttempts) =>
        /\ exit_code = 7
        /\ \/ current_exe = "old" /\ backup = NoExe
           \/ current_exe # "old" /\ backup = "old"

\* every pass of the copy loop failed and the rollback put the old executable
\* back over what the copy had left
C36_Witness ==
  /\ upc = "exit"
  /\ exit_code = 7
  /\ copy_tries = CopyAttempts
  /\ backup_tries > 0
  /\ current_exe = "old"
  /\ backup = NoExe

\* ------------------------------------------------ the two forms of a package
DISABLED_SUFFIX == <<".", "d", "i", "s", "a", "b", "l", "e", "d">>

\* the canonical file names of the packages of the directory
PkgNames == <<HairLong1Var, Hair1Var, HairLong2Var, Hair2Var>>

NameOf(p) == PkgNames[p]

\* _var_enabled_path, _var_disabled_path: the two file names of a package
var_enabled_path(v) == v

var_disabled_path(v) == v \o DISABLED_SUFFIX

\* os.scandir(addon_dir): the files, each with its name, the package whose
\* slot it fills and which of the two slots
DirEntries ==
  {<<var_enabled_path(NameOf(p)), p, "var">> :
      p \in {q \in Pkgs : en[q] # NoFile}}
    \cup {<<var_disabled_path(NameOf(p)), p, "disabled">> :
             p \in {q \in Pkgs : dis[q] # NoFile}}

\* fast_list_vars_all_states on the file names: (orig name, file) for each
\* name that ends in ".var", and for each that ends in ".var.disabled" with
\* len(DISABLED_SUFFIX) characters taken off its end
var_items ==
  {<<e[1], e>> : e \in {x \in DirEntries : EndsWith(Lower(x[1]), DotVar)}}
    \cup {<<SubSeq(e[1], 1, Len(e[1]) - Len(DISABLED_SUFFIX)), e>> :
             e \in {x \in DirEntries :
                      /\ ~EndsWith(Lower(x[1]), DotVar)
                      /\ EndsWith(Lower(x[1]), DotVar \o DISABLED_SUFFIX)}}

\* a signature that a rename changes
var_signature_OfName(e) == IF e[3] = "var" THEN 1 ELSE 2

\* _var_signature: size and mtime belong to the file, whatever its name
var_signature(e) ==
  LET content == IF e[3] = "var" THEN en[e[2]] ELSE dis[e[2]]
  IN IF content = OwnContent THEN 1 ELSE 2

\* current_sigs of ChangeCheckWorker.run and AnalyzeWorker.run: a dict filled
\* in the order of the listing, so of two files with one orig name the one
\* listed last, the longer name, gives the signature
current_sigs ==
  [n \in {i[1] : i \in var_items} |->
     LET its == {i \in var_items : i[1] = n}
         last == CHOOSE i \in its : \A j \in its : Len(j[2][1]) <= Len(i[2][1])
     IN var_signature(last[2])]

\* the universe made of the names of the enabled files only
all_var_names_on_disk_EnabledOnly ==
  {i[1] : i \in {x \in var_items : x[2][3] = "var"}}

\* all_var_names_on_disk
all_var_names_on_disk == {i[1] : i \in var_items}

\* get_var_existing_path: the enabled path when a file is there, else the
\* disabled path when a file is there, else None (<<>>)
get_var_existing_path(v) ==
  IF \E e \in DirEntries : e[1] = var_enabled_path(v)
    THEN var_enabled_path(v)
  ELSE IF \E e \in DirEntries : e[1] = var_disabled_path(v)
    THEN var_disabled_path(v)
  ELSE <<>>

\* _deps_for_var_name: the list in _var_deps_cache, else the dependencies
\* read from the file at the existing path, else []
deps_of_existing_var(v) ==
  IF v \in DOMAIN var_deps_cache THEN var_deps_cache[v]
  ELSE IF get_var_existing_path(v) # <<>>
    THEN scan_var_meta_only(v).dependencies
  ELSE <<>>

\* the points between two calls of the engine
BetweenCalls == pc \in {"idle", "pass1_done", "pass2_done"}

\* ChangeCheckWorker.run up to its comparison: the directory is listed
FormsRefresh ==
  /\ BetweenCalls
  /\ spc = "idle"
  /\ present' = DOMAIN current_sigs
  /\ sig' = current_sigs
  /\ spc' = "check"
  /\ UNCHANGED <<kind, scene, loose, addon, cache, scene_entries,
                 var_deps_cache, needs, opened, changes>>
  /\ UNCHANGED engVars
  /\ UNCHANGED updVars
  /\ UNCHANGED resVars

\* compute_keep_set_for_scene_vars(scene_vars) on the directory as it is
FormsResolve ==
  /\ BetweenCalls
  /\ run <= calls
  /\ all_vars' = all_var_names_on_disk
  /\ var_deps' = [v \in all_var_names_on_disk |-> deps_of_existing_var(v)]
  /\ scene_vars' = scene_vars
  /\ keep' = compute_keep_set_for_scene_vars'
  /\ keep1' = IF run = 0 THEN keep' ELSE keep1
  /\ run' = calls + 1
  /\ UNCHANGED <<queue, seeds_todo, dep, matched, rpc, enq_count, off_top>>
  /\ UNCHANGED engVars
  /\ UNCHANGED updVars
  /\ UNCHANGED scanVars

\* the first call of the engine: a cold disable or a reconcile, its keep set
\* computed just before; the call that follows is a restore
FormsDisable == calls = 0 /\ run = 1 /\ PassDisable

FormsReconcile == calls = 0 /\ run = 1 /\ PassReconcile

\* no session: no manifest; a session: the manifest lists the disabled files
ToolManifests ==
  {NoManifest,
   [exists |-> TRUE, renamed |-> InNameOrder({p \in Pkgs : dis[p] # NoFile})]}

\* any directory with a manifest of the tool and no file locked, so that no
\* rename fails; the folder has been scanned as it is and the cache written
InitFormsScanned ==
  /\ AnyDirectory
  /\ manifest \in ToolManifests
  /\ locked = {}
  /\ running = FALSE
  /\ snap_en = en
  /\ snap_dis = dis
  /\ snap_manifest = manifest
  /\ InitEngineIdle
  /\ InitUpdaterIdle
  /\ present = DOMAIN current_sigs
  /\ sig = current_sigs
  /\ kind = [n \in ScanPool |-> "good"]
  /\ scene = {}
  /\ loose = 0
  /\ addon = 1
  /\ cache = AnalyzeWorker_run(NoCache)
  /\ scene_entries = {}
  /\ spc = "idle"
  /\ needs = "none"
  /\ opened = {}
  /\ changes = 0
  /\ all_vars = {}
  /\ var_deps = <<>>
  /\ keep = {}
  /\ queue = <<>>
  /\ seeds_todo = {}
  /\ dep = <<>>
  /\ matched = {}
  /\ rpc = "idle"
  /\ run = 0
  /\ keep1 = {}
  /\ enq_count = <<>>
  /\ off_top = FALSE

\* _var_deps_cache loaded from the cache or still empty; any seed
InitForms ==
  /\ InitFormsScanned
  /\ var_deps_cache \in {<<>>, cache.all_deps}
  /\ scene_vars \in {S \in SUBSET {NameOf(p) : p \in Pkgs} :
                       Cardinality(S) <= MaxSeeds}

NextForms ==
  \/ FormsResolve
  \/ FormsDisable
  \/ FormsReconcile
  \/ PassRestore
  \/ PassRestoreNothing
  \/ DisableStep
  \/ DisableTruncate
  \/ DisableWrite
  \/ ReconcileRestoreStep
  \/ ReconcileList
  \/ ReconcileDisableStep
  \/ ReconcileTruncate
  \/ ReconcileWrite
  \/ RestoreStep
  \/ RestoreUnlink

SpecForms == InitForms /\ [][NextForms]_vars

\* the engine is not called while a change check is under way
CheckDisable == spc # "check" /\ PassDisable

CheckReconcile == spc # "check" /\ PassReconcile

CheckRestore == spc # "check" /\ PassRestore

CheckRestoreNothing == spc # "check" /\ PassRestoreNothing

InitCheck ==
  /\ InitFormsScanned
  /\ var_deps_cache = cache.all_deps
  /\ scene_vars = {}

NextCheck ==
  \/ FormsRefresh
  \/ ChangeCheckDone
  \/ CheckDisable
  \/ CheckReconcile
  \/ CheckRestore
  \/ CheckRestoreNothing
  \/ DisableStep
  \/ DisableTruncate
  \/ DisableWrite
  \/ ReconcileRestoreStep
  \/ ReconcileList
  \/ ReconcileDisableStep
  \/ ReconcileTruncate
  \/ ReconcileWrite
  \/ RestoreStep
  \/ RestoreUnlink

SpecCheck == InitCheck /\ [][NextCheck]_vars

\* C31: the keep set of a seed set does not depend on which packages are
\* enabled and which disabled: computed again after any calls of the engine,
\* with the same seeds, it is the keep set computed first.
C31_KeepSetIgnoresForms == run > 0 => keep = keep1

\* the keep set is computed after a cold disable or a reconcile has disabled
\* a package that was enabled when it was computed first, and it holds a
\* package that is disabled now and is not a seed
C31_Witness ==
  /\ pc = "pass1_done"
  /\ returned \in {"disable", "reconcile"}
  /\ run = 2
  /\ \E p \in Pkgs : snap_en[p] # NoFile /\ en[p] = NoFile /\ dis[p] # NoFile
  /\ \E p \in Pkgs :
        /\ en[p] = NoFile /\ dis[p] # NoFile
        /\ NameOf(p) \in keep \ scene_vars

\* no package has a file at both of its names
EachInOneForm == \A p \in Pkgs : en[p] = NoFile \/ dis[p] = NoFile

\* C33: a change check that said "no rescan" says so again after any calls
\* of the engine, each package being present in one form only.
C33_EngineLeavesCacheFresh ==
  [][(ChangeCheckDone /\ needs = "no" /\ EachInOneForm) => needs' = "no"]_vars

\* a change check is under way after a call of the engine that changed the
\* form of a package, the check before having found nothing to rescan
C33_Witness ==
  /\ spc = "check"
  /\ needs = "no"
  /\ calls > 0
  /\ EachInOneForm
  /\ \E p \in Pkgs : snap_en[p] # en[p]

====
